---- MODULE Spec2Model ----
(***************************************************************************)
(* Car-parking navigation: the update throttler (PerformanceOptimizer),    *)
(* the route progress functions (RoutingService) and the camera /          *)
(* navigation state of the CarParkingMap component.                        *)
(*                                                                         *)
(* Time is Date.now() in milliseconds.  Coordinates are points of one      *)
(* meridian, given as whole micro-degrees of latitude north of a reference *)
(* point; on a meridian the haversine distance is R * dLat exactly.        *)
(* Distances are whole centimetres.  An absent optional number (undefined, *)
(* null) is written Absent.                                                *)
(***************************************************************************)
EXTENDS Integers, Sequences, FiniteSets, TLC

VARIABLES
    now,                    \* Date.now()
    ticks,                  \* number of clock steps taken so far
    \* PerformanceOptimizer (the singleton performanceOptimizer)
    lastLocationUpdate,
    lastOrientationUpdate,
    isStationary,
    stationaryStartTime,
    lastMapUpdateLocation,
    \* CarParkingMap component state (useState / useRef)
    userLocation,
    orientation,
    navigationState,
    cameraState,
    userIdleTimeoutRef,     \* the pending setTimeout, if any
    pendingTimeouts,        \* number of setTimeout calls neither fired nor cleared
    locationListening,      \* initializeLocation has registered its listener
    \* what the closures of the last render captured
    rendered,
    throttleLastCallTime,   \* lastCallTime of the current throttle(...) closure
    depsChanged,            \* a dependency of handleUserMapInteraction changed
    \* the map view
    poseRequest,            \* the camera request in effect (last one issued)
    \* observation of the last step
    call,
    lastInteractionEvent,   \* time of the last user gesture event delivered
    navigatingSince,        \* time isNavigating last became true
    \* OrientationService (the singleton orientationService)
    lastOrientation,        \* lastOrientation.heading, Absent while lastOrientation is null
    smoothingFactor,        \* in tenths
    headingUpdates,         \* number of heading events handled so far
    \* the device
    devicePowerSaving,      \* the device is in power saving mode
    \* results handed to the caller of the last step
    adaptiveIntervals,      \* of getAdaptiveIntervals()
    routing,                \* the last call of a RoutingService function, with its result
    simplified,             \* the last call of MemoryManager.simplifyRoute, with its result
    routeRequest,           \* the route fetch handleStartNavigation awaits, if any
    currentRoute,           \* RoutingService.currentRoute, << >> while it is null
    locationCallbacks,      \* LocationService.locationCallbacks, in insertion order
    orientationCallbacks,   \* OrientationService.orientationCallbacks, in insertion order
    notified,               \* the last notification of the listeners of a stream
    lastKnownLocation,      \* LocationService.lastKnownLocation, its coordinates
    normalized,             \* the last call of a heading or bearing normalisation
    handles,                \* the unsubscribe functions the add...Listener calls have returned, in order
    watchId,                \* LocationService.watchId, Absent while it is null
    geolocation             \* the platform's Geolocation: its active watches and the id of the next one

vars == << now, ticks, lastLocationUpdate, lastOrientationUpdate, isStationary,
           stationaryStartTime, lastMapUpdateLocation, userLocation, orientation,
           navigationState, cameraState, userIdleTimeoutRef, pendingTimeouts,
           locationListening,
           rendered, throttleLastCallTime, depsChanged, poseRequest, call,
           lastInteractionEvent, navigatingSince, lastOrientation, smoothingFactor,
           headingUpdates, devicePowerSaving, adaptiveIntervals, routing,
           simplified,
           routeRequest,
           currentRoute,
           locationCallbacks,
           orientationCallbacks,
           notified,
           lastKnownLocation,
           normalized,
           handles,
           watchId,
           geolocation >>

throttleVars == << lastLocationUpdate, lastOrientationUpdate, isStationary,
                   stationaryStartTime, lastMapUpdateLocation >>

componentVars == << userLocation, orientation, navigationState, cameraState,
                    userIdleTimeoutRef, pendingTimeouts, locationListening,
                    rendered, throttleLastCallTime, depsChanged, poseRequest,
                    lastInteractionEvent, navigatingSince >>

orientationVars == << lastOrientation, smoothingFactor, headingUpdates >>

utilityVars == << simplified, routeRequest, normalized, handles, watchId, geolocation >>

\* the services' state apart from RoutingService.currentRoute
streamVars == << locationCallbacks, orientationCallbacks, notified,
                lastKnownLocation >>

otherServiceVars == << orientationVars, devicePowerSaving, adaptiveIntervals, routing,
                       utilityVars, streamVars >>

serviceVars == << otherServiceVars, currentRoute >>

----------------------------------------------------------------------------
(* Bounds of the model *)

\* Date.now() when the app starts: any value above every interval of the code.
StartTime == 100000

\* clock steps per behaviour of the gate specifications
MaxTicks == 5

\* clock steps per behaviour of the component specification
MaxComponentTicks == 2

\* a re-render scheduled by a state update commits within this many ms
MaxRenderLag == 50

Absent == -1

----------------------------------------------------------------------------
(* Program constants *)

LOCATION_UPDATE_INTERVAL == 1000
ORIENTATION_UPDATE_INTERVAL == 100
STATIONARY_THRESHOLD == 30000
STATIONARY_SPEED_THRESHOLD == 1
MAP_UPDATE_DISTANCE_THRESHOLD == 10
STATIONARY_LOCATION_INTERVAL == 5000
USER_IDLE_TIMEOUT == 10000
TURN_HIGHLIGHT_DISTANCE == 50
INTERACTION_THROTTLE_DELAY == 100
INITIAL_ZOOM == 15
FOLLOW_ZOOM == 16
TURN_ZOOM == 18
TURN_PITCH == 45
POWER_SAVING_MULTIPLIER == 2
MAP_UPDATE_INTERVAL == 500
\* smoothingFactor = 0.8, in tenths
DEFAULT_SMOOTHING_FACTOR == 8

\* R * pi / 180 with R = 6371e3: metres per degree of latitude
MetersPerDegree == 111195

CmPerMeter == 100

----------------------------------------------------------------------------
(* Geodesy on the meridian *)

Abs(x) == IF x < 0 THEN -x ELSE x

\* haversine distance of two points of the meridian, in centimetres:
\* (micro-degrees * MetersPerDegree) \div 10000, the product taken in two parts
\* to stay within 32 bits
calculateDistance(coord1, coord2) ==
    LET delta == Abs(coord2 - coord1)
    IN  (delta \div 10000) * MetersPerDegree
            + ((delta % 10000) * MetersPerDegree) \div 10000

----------------------------------------------------------------------------
(* PerformanceOptimizer *)

ThrottleState ==
    [ lastLocationUpdate    |-> lastLocationUpdate,
      lastOrientationUpdate |-> lastOrientationUpdate,
      isStationary          |-> isStationary,
      stationaryStartTime   |-> stationaryStartTime,
      lastMapUpdateLocation |-> lastMapUpdateLocation ]

\* location.speed || 0
SpeedOrZero(speed) == IF speed = Absent THEN 0 ELSE speed

\* the stationary fields after updateStationaryState(location) at time t
updateStationaryState(st, speed, t) ==
    IF SpeedOrZero(speed) < STATIONARY_SPEED_THRESHOLD
    THEN IF ~st.isStationary
         THEN [st EXCEPT !.isStationary = TRUE, !.stationaryStartTime = t]
         ELSE st
    ELSE [st EXCEPT !.isStationary = FALSE, !.stationaryStartTime = 0]

\* faulty variant: a rejected sample moves the last-accepted timestamp
shouldUpdateLocation_StampOnReject(st, speed, t) ==
    IF st.lastLocationUpdate = 0
    THEN [ret |-> TRUE, st |-> [st EXCEPT !.lastLocationUpdate = t]]
    ELSE IF t - st.lastLocationUpdate < LOCATION_UPDATE_INTERVAL
    THEN [ret |-> FALSE, st |-> [st EXCEPT !.lastLocationUpdate = t]]
    ELSE LET s2 == updateStationaryState(st, speed, t)
         IN  IF /\ s2.isStationary
                /\ t - s2.stationaryStartTime > STATIONARY_THRESHOLD
                /\ t - s2.lastLocationUpdate < STATIONARY_LOCATION_INTERVAL
             THEN [ret |-> FALSE, st |-> s2]
             ELSE [ret |-> TRUE, st |-> [s2 EXCEPT !.lastLocationUpdate = t]]

\* faulty variant: the first sample is accepted without recording its time
shouldUpdateLocation_FirstNotStamped(st, speed, t) ==
    IF st.lastLocationUpdate = 0
    THEN [ret |-> TRUE, st |-> st]
    ELSE IF t - st.lastLocationUpdate < LOCATION_UPDATE_INTERVAL
    THEN [ret |-> FALSE, st |-> st]
    ELSE LET s2 == updateStationaryState(st, speed, t)
         IN  IF /\ s2.isStationary
                /\ t - s2.stationaryStartTime > STATIONARY_THRESHOLD
                /\ t - s2.lastLocationUpdate < STATIONARY_LOCATION_INTERVAL
             THEN [ret |-> FALSE, st |-> s2]
             ELSE [ret |-> TRUE, st |-> [s2 EXCEPT !.lastLocationUpdate = t]]

\* faulty variant: the reduced cadence of a long-stationary agent is not applied
shouldUpdateLocation_NoReducedCadence(st, speed, t) ==
    IF st.lastLocationUpdate = 0
    THEN [ret |-> TRUE, st |-> [st EXCEPT !.lastLocationUpdate = t]]
    ELSE IF t - st.lastLocationUpdate < LOCATION_UPDATE_INTERVAL
    THEN [ret |-> FALSE, st |-> st]
    ELSE LET s2 == updateStationaryState(st, speed, t)
         IN  [ret |-> TRUE, st |-> [s2 EXCEPT !.lastLocationUpdate = t]]

\* shouldUpdateLocation(location) at time t: the return value and the state after
shouldUpdateLocation(st, speed, t) ==
    IF st.lastLocationUpdate = 0
    THEN [ret |-> TRUE, st |-> [st EXCEPT !.lastLocationUpdate = t]]
    ELSE IF t - st.lastLocationUpdate < LOCATION_UPDATE_INTERVAL
    THEN [ret |-> FALSE, st |-> st]
    ELSE LET s2 == updateStationaryState(st, speed, t)
         IN  IF /\ s2.isStationary
                /\ t - s2.stationaryStartTime > STATIONARY_THRESHOLD
                /\ t - s2.lastLocationUpdate < STATIONARY_LOCATION_INTERVAL
             THEN [ret |-> FALSE, st |-> s2]
             ELSE [ret |-> TRUE, st |-> [s2 EXCEPT !.lastLocationUpdate = t]]

\* faulty variant: a sample exactly one interval after the last accepted one is rejected
shouldUpdateOrientation_Strict(st, t) ==
    IF t - st.lastOrientationUpdate <= ORIENTATION_UPDATE_INTERVAL
    THEN [ret |-> FALSE, st |-> st]
    ELSE [ret |-> TRUE, st |-> [st EXCEPT !.lastOrientationUpdate = t]]

\* faulty variant: an accepted heading sample stamps the position clock as well
shouldUpdateOrientation_StampsLocation(st, t) ==
    IF t - st.lastOrientationUpdate < ORIENTATION_UPDATE_INTERVAL
    THEN [ret |-> FALSE, st |-> st]
    ELSE [ret |-> TRUE, st |-> [st EXCEPT !.lastOrientationUpdate = t,
                                          !.lastLocationUpdate = t]]

\* shouldUpdateOrientation() at time t
shouldUpdateOrientation(st, t) ==
    IF t - st.lastOrientationUpdate < ORIENTATION_UPDATE_INTERVAL
    THEN [ret |-> FALSE, st |-> st]
    ELSE [ret |-> TRUE, st |-> [st EXCEPT !.lastOrientationUpdate = t]]

\* faulty variant: the reference point follows every sample, accepted or not
shouldUpdateMap_ReferenceFollows(st, coord) ==
    IF st.lastMapUpdateLocation = Absent
    THEN [ret |-> TRUE, st |-> [st EXCEPT !.lastMapUpdateLocation = coord]]
    ELSE [ret |-> calculateDistance(st.lastMapUpdateLocation, coord)
                      >= MAP_UPDATE_DISTANCE_THRESHOLD * CmPerMeter,
          st  |-> [st EXCEPT !.lastMapUpdateLocation = coord]]

\* shouldUpdateMap(location)
shouldUpdateMap(st, coord) ==
    IF st.lastMapUpdateLocation = Absent
    THEN [ret |-> TRUE, st |-> [st EXCEPT !.lastMapUpdateLocation = coord]]
    ELSE IF calculateDistance(st.lastMapUpdateLocation, coord)
              >= MAP_UPDATE_DISTANCE_THRESHOLD * CmPerMeter
    THEN [ret |-> TRUE, st |-> [st EXCEPT !.lastMapUpdateLocation = coord]]
    ELSE [ret |-> FALSE, st |-> st]

\* the fields as the constructor leaves them
InitialThrottleState ==
    [ lastLocationUpdate    |-> 0,
      lastOrientationUpdate |-> 0,
      isStationary          |-> FALSE,
      stationaryStartTime   |-> 0,
      lastMapUpdateLocation |-> Absent ]

\* faulty variant: the map-reference point and the stationary clock survive
reset_KeepsReference(st) ==
    [ lastLocationUpdate    |-> 0,
      lastOrientationUpdate |-> 0,
      isStationary          |-> FALSE,
      stationaryStartTime   |-> st.stationaryStartTime,
      lastMapUpdateLocation |-> st.lastMapUpdateLocation ]

\* reset()
reset(st) ==
    [ lastLocationUpdate    |-> 0,
      lastOrientationUpdate |-> 0,
      isStationary          |-> FALSE,
      stationaryStartTime   |-> 0,
      lastMapUpdateLocation |-> Absent ]

SetThrottle(st) ==
    /\ lastLocationUpdate' = st.lastLocationUpdate
    /\ lastOrientationUpdate' = st.lastOrientationUpdate
    /\ isStationary' = st.isStationary
    /\ stationaryStartTime' = st.stationaryStartTime
    /\ lastMapUpdateLocation' = st.lastMapUpdateLocation

----------------------------------------------------------------------------
(* Initial state: the singleton optimizer constructed, the component mounted *)

NoPose == [kind |-> "none", center |-> Absent, zoom |-> 0, heading |-> 0, pitch |-> 0]

NoTimeout == [pending |-> FALSE, due |-> 0, pose |-> NoPose]

\* remainingTime before any call of calculateProgress
NoTime == [kind |-> "finite", num |-> 0, den |-> 1]

NoRoute == [distance |-> 0, duration |-> 0, steps |-> << >>, coordinates |-> << >>]

\* no listener has been notified yet
NotNotified ==
    [ stream |-> "none", callbacks |-> << >>, throwing |-> {}, delivered |-> << >>,
      escaped |-> FALSE, threwBefore |-> {} ]

\* no route fetch is awaited
NoRequest == [pending |-> FALSE, slot |-> Absent]

NoProgress ==
    [ remainingDistance |-> 0, nextTurnInstruction |-> << >>, hasNextTurn |-> FALSE,
      nextTurnDistance |-> Absent ]

\* useState<NavigationState>(...) of the first render, and handleEndNavigation's value
IdleNavigationState ==
    [ isNavigating        |-> FALSE,
      currentRoute        |-> << >>,
      currentStepIndex    |-> 0,
      remainingDistance   |-> 0,
      nextTurnInstruction |-> << >>,
      nextTurnDistance    |-> Absent ]

\* useState<CameraState>(...) of the first render
InitialCameraState ==
    [ zoom                |-> INITIAL_ZOOM,
      bearing             |-> 0,
      pitch               |-> 0,
      isUserControlled    |-> FALSE,
      lastUserInteraction |-> 0 ]

\* the state before a step, kept in call.pre
Pre ==
    [ throttle           |-> ThrottleState,
      cameraState        |-> cameraState,
      userIdleTimeoutRef |-> userIdleTimeoutRef,
      lastOrientation    |-> lastOrientation ]

Observe(op, coord, speed, ret) ==
    call' = [op |-> op, coord |-> coord, speed |-> speed, ret |-> ret, pre |-> Pre]

Init ==
    /\ now = StartTime
    /\ ticks = 0
    /\ lastLocationUpdate = 0
    /\ lastOrientationUpdate = 0
    /\ isStationary = FALSE
    /\ stationaryStartTime = 0
    /\ lastMapUpdateLocation = Absent
    /\ userLocation = Absent
    /\ orientation = Absent
    /\ navigationState = IdleNavigationState
    /\ cameraState = InitialCameraState
    /\ userIdleTimeoutRef = NoTimeout
    /\ pendingTimeouts = 0
    /\ locationListening = FALSE
    /\ rendered = [ isNavigating |-> FALSE, userLocation |-> Absent,
                    cameraState |-> InitialCameraState ]
    /\ throttleLastCallTime = 0
    /\ depsChanged = FALSE
    /\ poseRequest = NoPose
    /\ call = [op |-> "init", coord |-> Absent, speed |-> Absent, ret |-> FALSE,
               pre |-> [ throttle |-> InitialThrottleState,
                         cameraState |-> InitialCameraState,
                         userIdleTimeoutRef |-> NoTimeout,
                         lastOrientation |-> Absent ]]
    /\ lastInteractionEvent = 0
    /\ navigatingSince = 0
    /\ lastOrientation = Absent
    /\ smoothingFactor = DEFAULT_SMOOTHING_FACTOR
    /\ headingUpdates = 0
    /\ devicePowerSaving = FALSE
    /\ adaptiveIntervals = [ locationInterval |-> Absent, orientationInterval |-> Absent,
                             mapUpdateInterval |-> Absent ]
    /\ routing = [ op |-> "none", currentPosition |-> Absent, route |-> NoRoute,
                   currentStepIndex |-> 0, progress |-> NoProgress,
                   remainingTime |-> NoTime ]
    /\ simplified = [ coordinates |-> << >>, result |-> << >> ]
    /\ routeRequest = NoRequest
    /\ currentRoute = << >>
    /\ locationCallbacks = << >>
    /\ orientationCallbacks = << >>
    /\ notified = NotNotified
    /\ lastKnownLocation = Absent
    /\ normalized = [ op |-> "none", argument |-> 0, returns |-> TRUE, result |-> 0 ]
    /\ handles = << >>
    /\ watchId = Absent
    /\ geolocation = [subscriptions |-> {}, nextWatchId |-> 0]

----------------------------------------------------------------------------
(* The clock *)

RenderPending ==
    \/ depsChanged
    \/ rendered.isNavigating # navigationState.isNavigating
    \/ rendered.userLocation # userLocation
    \/ rendered.cameraState # cameraState

\* Date.now() advances by d ms.  A pending idle timeout fires before the clock
\* passes its due time, and a scheduled render commits within MaxRenderLag.
Tick(d) ==
    /\ userIdleTimeoutRef.pending => now + d <= userIdleTimeoutRef.due
    /\ RenderPending => d <= MaxRenderLag
    /\ now' = now + d
    /\ ticks' = ticks + 1
    /\ Observe("tick", Absent, Absent, FALSE)
    /\ UNCHANGED << throttleVars, componentVars, serviceVars >>

----------------------------------------------------------------------------
(* RoutingService: the mock provider and the progress functions *)

Min(a, b) == IF a < b THEN a ELSE b

Max(a, b) == IF a > b THEN a ELSE b

\* Math.round(num / den) for num >= 0, den > 0
Round(num, den) == (2 * num + den) \div (2 * den)

\* an instruction text is the sequence of the pieces it is put together from
generateMockInstruction(stepIndex, totalSteps) ==
    IF stepIndex = 0 THEN << "Head north on current road" >>
    ELSE IF stepIndex = totalSteps - 1 THEN << "Arrive at destination" >>
    ELSE LET direction == << "left", "right", "straight" >>[(stepIndex % 3) + 1]
             road == << "Main Road", "Boulevard", "Street", "Avenue", "Lane" >>
                         [(stepIndex % 5) + 1]
         IN  IF direction = "straight"
             THEN << "Continue straight on", road >>
             ELSE << "Turn", direction, "onto", road >>

\* Latitudes are JavaScript numbers: a sum or a difference of two of them is
\* rounded to the nearest representable number, ties to even.  The model keeps
\* sixteen significant bits (CoordinateMantissa = 2^16) where the source has
\* fifty-three: whole micro-degrees below 65536 are exact.
CoordinateMantissa == 65536

RECURSIVE CoordinateQuantum(_)
CoordinateQuantum(a) ==
    IF a < CoordinateMantissa THEN 1 ELSE 2 * CoordinateQuantum(a \div 2)

CoordinateFloat(x) ==
    LET q == CoordinateQuantum(Abs(x))
        n == Abs(x) \div q
        r == Abs(x) % q
        m == IF 2 * r > q \/ (2 * r = q /\ n % 2 = 1) THEN n + 1 ELSE n
    IN  IF x < 0 THEN -(m * q) ELSE m * q

\* origin.latitude + (destination.latitude - origin.latitude) * (i / numberOfSteps)
Interpolate(origin, destination, i, numberOfSteps) ==
    CoordinateFloat(origin + (CoordinateFloat(destination - origin) * i)
                                 \div numberOfSteps)

\* faulty variant: the geometry loop stops at i < numberOfSteps, so the
\* destination is never pushed
getMockRoute_NoDestination(origin, destination) ==
    LET totalDistance == calculateDistance(origin, destination)
        totalDuration == Round(totalDistance, 1389)
        numberOfSteps == Min(Max(3, Round(totalDistance, 1000 * CmPerMeter)), 8)
    IN  [ distance    |-> totalDistance,
          duration    |-> totalDuration,
          steps       |-> [ k \in 1..numberOfSteps |->
                              [ instruction |-> generateMockInstruction(k - 1, numberOfSteps),
                                distance    |-> totalDistance \div numberOfSteps,
                                duration    |-> totalDuration \div numberOfSteps,
                                coordinates |-> << Interpolate(origin, destination, k - 1,
                                                               numberOfSteps) >> ] ],
          coordinates |-> [ k \in 1..numberOfSteps |->
                              Interpolate(origin, destination, k - 1, numberOfSteps) ] ]

\* getMockRoute(origin, destination): distances in cm, durations in seconds
getMockRoute(origin, destination) ==
    LET totalDistance == calculateDistance(origin, destination)
        totalDuration == Round(totalDistance, 1389)
        numberOfSteps == Min(Max(3, Round(totalDistance, 1000 * CmPerMeter)), 8)
    IN  [ distance    |-> totalDistance,
          duration    |-> totalDuration,
          steps       |-> [ k \in 1..numberOfSteps |->
                              [ instruction |-> generateMockInstruction(k - 1, numberOfSteps),
                                distance    |-> totalDistance \div numberOfSteps,
                                duration    |-> totalDuration \div numberOfSteps,
                                coordinates |-> << Interpolate(origin, destination, k - 1,
                                                               numberOfSteps) >> ] ],
          coordinates |-> [ k \in 1..(numberOfSteps + 1) |->
                              Interpolate(origin, destination, k - 1, numberOfSteps) ] ]

\* the forEach over step.coordinates inside findCurrentStepIndex
RECURSIVE ScanCoordinates(_, _, _, _, _)
ScanCoordinates(position, coords, index, minDistance, currentStepIndex) ==
    IF coords = << >> THEN [minDistance |-> minDistance, currentStepIndex |-> currentStepIndex]
    ELSE LET distance == calculateDistance(position, Head(coords))
         IN  IF minDistance = Absent \/ distance < minDistance
             THEN ScanCoordinates(position, Tail(coords), index, distance, index)
             ELSE ScanCoordinates(position, Tail(coords), index, minDistance, currentStepIndex)

\* the forEach over route.steps; minDistance = Absent stands for Infinity
RECURSIVE ScanSteps(_, _, _, _, _)
ScanSteps(position, steps, index, minDistance, currentStepIndex) ==
    IF index >= Len(steps) THEN currentStepIndex
    ELSE LET r == ScanCoordinates(position, steps[index + 1].coordinates, index,
                                  minDistance, currentStepIndex)
         IN  ScanSteps(position, steps, index + 1, r.minDistance, r.currentStepIndex)

\* faulty variant: among equally close points the last one scanned wins
RECURSIVE ScanCoordinates_LastWins(_, _, _, _, _)
ScanCoordinates_LastWins(position, coords, index, minDistance, currentStepIndex) ==
    IF coords = << >> THEN [minDistance |-> minDistance, currentStepIndex |-> currentStepIndex]
    ELSE LET distance == calculateDistance(position, Head(coords))
         IN  IF minDistance = Absent \/ distance <= minDistance
             THEN ScanCoordinates_LastWins(position, Tail(coords), index, distance, index)
             ELSE ScanCoordinates_LastWins(position, Tail(coords), index, minDistance,
                                           currentStepIndex)

RECURSIVE ScanSteps_LastWins(_, _, _, _, _)
ScanSteps_LastWins(position, steps, index, minDistance, currentStepIndex) ==
    IF index >= Len(steps) THEN currentStepIndex
    ELSE LET r == ScanCoordinates_LastWins(position, steps[index + 1].coordinates, index,
                                           minDistance, currentStepIndex)
         IN  ScanSteps_LastWins(position, steps, index + 1, r.minDistance,
                                r.currentStepIndex)

findCurrentStepIndex_LastWins(currentPosition, route) ==
    ScanSteps_LastWins(currentPosition, route.steps, 0, Absent, 0)

\* findCurrentStepIndex(currentPosition, route), 0-based as in the code
findCurrentStepIndex(currentPosition, route) ==
    ScanSteps(currentPosition, route.steps, 0, Absent, 0)

RECURSIVE SumStepDistances(_, _)
SumStepDistances(steps, from) ==
    IF from > Len(steps) THEN 0
    ELSE steps[from].distance + SumStepDistances(steps, from + 1)

\* faulty variant: the whole distance of the current step is counted as remaining
calculateProgress_WholeCurrentStep(currentPosition, route, currentStepIndex) ==
    LET steps == route.steps
        hasCurrent == currentStepIndex < Len(steps)
        hasNext == currentStepIndex + 1 < Len(steps)
        nextStep == steps[currentStepIndex + 2]
    IN  [ remainingDistance |->
              IF hasCurrent THEN SumStepDistances(steps, currentStepIndex + 1) ELSE 0,
          nextTurnInstruction |-> IF hasNext THEN nextStep.instruction ELSE << >>,
          hasNextTurn |-> hasNext,
          nextTurnDistance |->
              IF hasNext
              THEN calculateDistance(currentPosition, nextStep.coordinates[1])
              ELSE Absent ]

\* faulty variant: the next turn is measured to the end of the next step
calculateProgress_NextTurnAtStepEnd(currentPosition, route, currentStepIndex) ==
    LET steps == route.steps
        hasCurrent == currentStepIndex < Len(steps)
        hasNext == currentStepIndex + 1 < Len(steps)
        currentStep == steps[currentStepIndex + 1]
        nextStep == steps[currentStepIndex + 2]
    IN  [ remainingDistance |->
              IF hasCurrent
              THEN calculateDistance(currentPosition,
                                     currentStep.coordinates[Len(currentStep.coordinates)])
                   + SumStepDistances(steps, currentStepIndex + 2)
              ELSE 0,
          nextTurnInstruction |-> IF hasNext THEN nextStep.instruction ELSE << >>,
          hasNextTurn |-> hasNext,
          nextTurnDistance |->
              IF hasNext
              THEN calculateDistance(currentPosition,
                                     nextStep.coordinates[Len(nextStep.coordinates)])
              ELSE Absent ]

\* calculateProgress(currentPosition, route, currentStepIndex), without remainingTime
calculateProgress(currentPosition, route, currentStepIndex) ==
    LET steps == route.steps
        hasCurrent == currentStepIndex < Len(steps)
        hasNext == currentStepIndex + 1 < Len(steps)
        currentStep == steps[currentStepIndex + 1]
        nextStep == steps[currentStepIndex + 2]
    IN  [ remainingDistance |->
              IF hasCurrent
              THEN calculateDistance(currentPosition,
                                     currentStep.coordinates[Len(currentStep.coordinates)])
                   + SumStepDistances(steps, currentStepIndex + 2)
              ELSE 0,
          nextTurnInstruction |-> IF hasNext THEN nextStep.instruction ELSE << >>,
          hasNextTurn |-> hasNext,
          nextTurnDistance |->
              IF hasNext
              THEN calculateDistance(currentPosition, nextStep.coordinates[1])
              ELSE Absent ]

----------------------------------------------------------------------------
(* CarParkingMap: camera requests *)

\* animateToLocation(coordinates, zoom?) of a render whose cameraState was cam;
\* zoom = Absent when the argument is omitted (zoom || cameraState.zoom)
animateToLocation(cam, coordinates, zoom) ==
    [ kind    |-> "animateCamera",
      center  |-> coordinates,
      zoom    |-> IF zoom = Absent \/ zoom = 0 THEN cam.zoom ELSE zoom,
      heading |-> IF cam.isUserControlled THEN cam.bearing ELSE 0,
      pitch   |-> cam.pitch ]

\* the camera built at lines 287-292
TurnHighlightCamera(ori, coordinates) ==
    [ kind    |-> "animateCamera",
      center  |-> coordinates,
      zoom    |-> TURN_ZOOM,
      heading |-> IF ori = Absent THEN 0 ELSE ori,
      pitch   |-> TURN_PITCH ]

FitToCoordinates ==
    [kind |-> "fitToCoordinates", center |-> Absent, zoom |-> 0, heading |-> 0, pitch |-> 0]

\* updateNavigationProgress(location) of a render whose state was nav, cam, ori:
\* whether it went past its first line, the progress it computed, and the camera
\* requests it issued, in order
updateNavigationProgress(nav, cam, ori, coordinates) ==
    IF ~nav.isNavigating \/ nav.currentRoute = << >>
    THEN [ran |-> FALSE, currentStepIndex |-> 0, progress |-> << >>, requests |-> << >>]
    ELSE LET route == nav.currentRoute
             currentStepIndex == findCurrentStepIndex(coordinates, route)
             progress == calculateProgress(coordinates, route, currentStepIndex)
             \* progress.nextTurnDistance && progress.nextTurnDistance < TURN_HIGHLIGHT_DISTANCE
             approaching == /\ progress.nextTurnDistance # Absent
                            /\ progress.nextTurnDistance # 0
                            /\ progress.nextTurnDistance < TURN_HIGHLIGHT_DISTANCE * CmPerMeter
             highlight == IF approaching /\ ~cam.isUserControlled
                          THEN << TurnHighlightCamera(ori, coordinates) >>
                          ELSE << >>
             follow == IF ~cam.isUserControlled
                       THEN << animateToLocation(cam, coordinates, FOLLOW_ZOOM) >>
                       ELSE << >>
         IN  [ ran |-> TRUE, currentStepIndex |-> currentStepIndex,
               progress |-> progress, requests |-> highlight \o follow ]

\* The location listener is created by initializeLocation, which runs once, from
\* the effect of the first render (useEffect(..., [])): the updateNavigationProgress
\* it calls is the one of the first render, whose navigationState, cameraState and
\* orientation are the initial ones.
ListenerClosure ==
    [ navigationState |-> IdleNavigationState,
      cameraState     |-> InitialCameraState,
      orientation     |-> Absent ]

----------------------------------------------------------------------------
(* CarParkingMap: the handlers *)

Snapshot ==
    [ isNavigating |-> navigationState.isNavigating,
      userLocation |-> userLocation,
      cameraState  |-> cameraState ]

\* React re-renders the component: the useCallback closures are created again
\* from the current state, and with them the throttle(...) of
\* handleUserMapInteraction, whose lastCallTime starts at 0.
Render ==
    /\ RenderPending
    /\ rendered' = Snapshot
    /\ throttleLastCallTime' = 0
    /\ depsChanged' = FALSE
    /\ Observe("render", Absent, Absent, FALSE)
    /\ UNCHANGED << now, ticks, serviceVars, throttleVars, userLocation, orientation, navigationState,
                    cameraState, userIdleTimeoutRef, pendingTimeouts, locationListening, poseRequest,
                    lastInteractionEvent, navigatingSince >>

InitialPositions == {0}

\* initializeLocation, permission granted and getCurrentPosition resolved
InitializeLocation(coordinates) ==
    /\ ~locationListening
    /\ userLocation' = coordinates
    /\ poseRequest' = animateToLocation(InitialCameraState, coordinates, Absent)
    /\ locationListening' = TRUE
    /\ depsChanged' = TRUE
    /\ Observe("initializeLocation", coordinates, Absent, TRUE)
    /\ UNCHANGED << now, ticks, serviceVars, throttleVars, orientation, navigationState, cameraState,
                    userIdleTimeoutRef, pendingTimeouts, rendered, throttleLastCallTime,
                    lastInteractionEvent, navigatingSince >>

\* the listener registered at line 119
OnLocationSample(coordinates, speed) ==
    /\ locationListening
    /\ LET r == shouldUpdateLocation(ThrottleState, speed, now)
           u == updateNavigationProgress(ListenerClosure.navigationState,
                                         ListenerClosure.cameraState,
                                         ListenerClosure.orientation, coordinates)
       IN  /\ SetThrottle(r.st)
           /\ userLocation' = IF r.ret THEN coordinates ELSE userLocation
           /\ depsChanged' = (depsChanged \/ r.ret)
           /\ navigationState' =
                IF r.ret /\ u.ran
                THEN [navigationState EXCEPT
                        !.currentStepIndex = u.currentStepIndex,
                        !.remainingDistance = u.progress.remainingDistance,
                        !.nextTurnInstruction = u.progress.nextTurnInstruction,
                        !.nextTurnDistance = u.progress.nextTurnDistance]
                ELSE navigationState
           /\ poseRequest' =
                IF r.ret /\ u.ran /\ u.requests # << >>
                THEN u.requests[Len(u.requests)]
                ELSE poseRequest
           /\ Observe("onLocationSample", coordinates, speed, r.ret)
    /\ UNCHANGED << now, ticks, serviceVars, orientation, cameraState, userIdleTimeoutRef, pendingTimeouts,
                    locationListening, rendered, throttleLastCallTime,
                    lastInteractionEvent, navigatingSince >>

\* the listener registered at line 136
OnOrientationSample(heading) ==
    LET r == shouldUpdateOrientation(ThrottleState, now)
    IN  /\ SetThrottle(r.st)
        /\ orientation' = IF r.ret THEN heading ELSE orientation
        /\ Observe("onOrientationSample", heading, Absent, r.ret)
        /\ UNCHANGED << now, ticks, serviceVars, userLocation, navigationState, cameraState,
                        userIdleTimeoutRef, pendingTimeouts, locationListening, rendered,
                        throttleLastCallTime, depsChanged, poseRequest,
                        lastInteractionEvent, navigatingSince >>

\* faulty variant: the interaction time is not recorded
InteractionBody_NoInteractionTime(closure, cam, timeout, t) ==
    [ cameraState |-> [cam EXCEPT !.isUserControlled = TRUE],
      userIdleTimeoutRef |->
          IF closure.isNavigating
          THEN [ pending |-> TRUE, due |-> t + USER_IDLE_TIMEOUT,
                 pose |-> IF closure.userLocation # Absent
                          THEN animateToLocation(closure.cameraState,
                                                 closure.userLocation, Absent)
                          ELSE NoPose ]
          ELSE NoTimeout ]

\* faulty variant: a pending timeout is left to fire instead of being cleared
InteractionBody_TimeoutNotCleared(closure, cam, timeout, t) ==
    [ cameraState |-> [cam EXCEPT !.isUserControlled = TRUE, !.lastUserInteraction = t],
      userIdleTimeoutRef |->
          IF timeout.pending THEN timeout
          ELSE IF closure.isNavigating
          THEN [ pending |-> TRUE, due |-> t + USER_IDLE_TIMEOUT,
                 pose |-> IF closure.userLocation # Absent
                          THEN animateToLocation(closure.cameraState,
                                                 closure.userLocation, Absent)
                          ELSE NoPose ]
          ELSE NoTimeout ]

\* the body passed to throttle(...) at lines 171-198, in the closure of the last
\* render, at time t: the new camera state, and the timeout pending afterwards
\* (the one pending before is cleared in every case)
InteractionBody(closure, cam, timeout, t) ==
    [ cameraState |-> [cam EXCEPT !.isUserControlled = TRUE, !.lastUserInteraction = t],
      userIdleTimeoutRef |->
          IF closure.isNavigating
          THEN [ pending |-> TRUE, due |-> t + USER_IDLE_TIMEOUT,
                 pose |-> IF closure.userLocation # Absent
                          THEN animateToLocation(closure.cameraState,
                                                 closure.userLocation, Absent)
                          ELSE NoPose ]
          ELSE NoTimeout ]

\* throttle(func, delay): whether a call at time t goes through
ThrottlePasses(lastCallTime, t) == t - lastCallTime >= INTERACTION_THROTTLE_DELAY

\* onPanDrag / onRegionChangeComplete -> handleUserMapInteraction
\* if (userIdleTimeoutRef.current) clearTimeout(userIdleTimeoutRef.current):
\* the timeout the ref names stops being pending, if it still was
clearTimeout(timeout, pending) ==
    IF timeout.pending THEN pending - 1 ELSE pending

\* faulty variant: handleUserMapInteraction schedules without clearing
InteractionTimeouts_NotCleared(closure, timeout, pending) ==
    IF closure.isNavigating THEN pending + 1 ELSE pending

\* handleUserMapInteraction: clearTimeout of the ref's timeout, then
\* setTimeout(..., USER_IDLE_TIMEOUT) if (navigationState.isNavigating)
InteractionTimeouts(closure, timeout, pending) ==
    IF closure.isNavigating
    THEN clearTimeout(timeout, pending) + 1
    ELSE clearTimeout(timeout, pending)

HandleUserMapInteraction(type) ==
    /\ lastInteractionEvent' = now
    /\ IF ThrottlePasses(throttleLastCallTime, now)
       THEN LET b == InteractionBody(rendered, cameraState, userIdleTimeoutRef, now)
            IN  /\ throttleLastCallTime' = now
                /\ cameraState' = b.cameraState
                /\ userIdleTimeoutRef' = b.userIdleTimeoutRef
                /\ pendingTimeouts' = InteractionTimeouts(rendered, userIdleTimeoutRef,
                                                          pendingTimeouts)
                /\ depsChanged' = TRUE
       ELSE UNCHANGED << throttleLastCallTime, cameraState, userIdleTimeoutRef, pendingTimeouts, depsChanged >>
    /\ Observe("handleUserMapInteraction", Absent, Absent,
               ThrottlePasses(throttleLastCallTime, now))
    /\ UNCHANGED << now, ticks, serviceVars, throttleVars, userLocation, orientation, navigationState,
                    locationListening, rendered, poseRequest, navigatingSince >>

\* the setTimeout callback of lines 185-196
IdleTimeoutFires ==
    /\ userIdleTimeoutRef.pending
    /\ now >= userIdleTimeoutRef.due
    /\ cameraState' = [cameraState EXCEPT !.isUserControlled = FALSE, !.bearing = 0]
    /\ poseRequest' = IF userIdleTimeoutRef.pose # NoPose
                      THEN userIdleTimeoutRef.pose ELSE poseRequest
    /\ userIdleTimeoutRef' = NoTimeout
    /\ pendingTimeouts' = pendingTimeouts - 1
    /\ depsChanged' = TRUE
    /\ Observe("idleTimeout", Absent, Absent, TRUE)
    /\ UNCHANGED << now, ticks, serviceVars, throttleVars, userLocation, orientation, navigationState,
                    locationListening, rendered, throttleLastCallTime,
                    lastInteractionEvent, navigatingSince >>

ParkingSlots == {1620}

\* handleStartNavigation with a known location; the mock provider does not fail
StartNavigation(slot) ==
    /\ rendered.userLocation # Absent
    /\ LET route == getMockRoute(rendered.userLocation, slot)
       IN  navigationState' =
             [ isNavigating        |-> TRUE,
               currentRoute        |-> route,
               currentStepIndex    |-> 0,
               remainingDistance   |-> route.distance,
               nextTurnInstruction |-> route.steps[1].instruction,
               nextTurnDistance    |-> route.steps[1].distance ]
    /\ poseRequest' = FitToCoordinates
    /\ navigatingSince' = IF navigationState.isNavigating THEN navigatingSince ELSE now
    /\ Observe("handleStartNavigation", slot, Absent, TRUE)
    /\ UNCHANGED << now, ticks, serviceVars, throttleVars, userLocation, orientation, cameraState,
                    userIdleTimeoutRef, pendingTimeouts, locationListening, rendered, throttleLastCallTime,
                    depsChanged, lastInteractionEvent >>

\* handleStartNavigation without a known location: an alert, nothing else
StartNavigationWithoutLocation(slot) ==
    /\ rendered.userLocation = Absent
    /\ Observe("handleStartNavigation", slot, Absent, FALSE)
    /\ UNCHANGED << now, ticks, serviceVars, throttleVars, componentVars >>

\* the state handleEndNavigation writes
EndNavigationCamera(cam) ==
    [cam EXCEPT !.isUserControlled = FALSE, !.bearing = 0, !.pitch = 0]

\* faulty variant: the pending timeout survives the end of navigation
EndNavigationTimeout_NotCleared(timeout) == timeout

\* lines 322-324: the pending timeout after handleEndNavigation
EndNavigationTimeout(timeout) == NoTimeout

\* faulty variant: the end of navigation resets the optimizer
EndNavigationThrottle_Reset(st) == InitialThrottleState

\* the state of performanceOptimizer after handleEndNavigation, which does not
\* use it
EndNavigationThrottle(st) == st

\* handleEndNavigation, from the press of the navigation bar's button; React
\* commits the updates of a press before the next event
\* faulty variant: handleEndNavigation only clears isNavigating and the route
EndNavigationState_KeepsProgress(nav) ==
    [nav EXCEPT !.isNavigating = FALSE, !.currentRoute = << >>]

\* handleEndNavigation: setNavigationState({ isNavigating: false,
\* currentStepIndex: 0, remainingDistance: 0, estimatedTimeArrival: new Date() })
EndNavigationState(nav) == IdleNavigationState

EndNavigation ==
    /\ SetThrottle(EndNavigationThrottle(ThrottleState))
    /\ navigationState' = EndNavigationState(navigationState)
    /\ cameraState' = EndNavigationCamera(cameraState)
    /\ userIdleTimeoutRef' = EndNavigationTimeout(userIdleTimeoutRef)
    /\ pendingTimeouts' = clearTimeout(userIdleTimeoutRef, pendingTimeouts)
    /\ rendered' = [ isNavigating |-> FALSE, userLocation |-> userLocation,
                     cameraState |-> cameraState' ]
    /\ throttleLastCallTime' = 0
    /\ depsChanged' = FALSE
    /\ currentRoute' = << >>
    /\ Observe("handleEndNavigation", Absent, Absent, TRUE)
    /\ UNCHANGED << now, ticks, otherServiceVars, userLocation, orientation,
                    locationListening, poseRequest, lastInteractionEvent, navigatingSince >>

SamplePositions == {0, 720}

SampleSpeeds == {5}

Headings == {90}

InteractionTypes == {"pan", "zoom"}

\* clock steps: inside the throttle delay, and the two that make up the idle
\* timeout
ComponentSteps == {50, 9950, 10000}

Next ==
    \/ \E d \in ComponentSteps : ticks < MaxComponentTicks /\ Tick(d)
    \/ Render
    \/ \E c \in InitialPositions : InitializeLocation(c)
    \/ \E c \in SamplePositions, v \in SampleSpeeds : OnLocationSample(c, v)
    \/ \E type \in InteractionTypes : HandleUserMapInteraction(type)
    \/ IdleTimeoutFires
    \/ \E slot \in ParkingSlots : StartNavigation(slot)
    \/ \E slot \in ParkingSlots : StartNavigationWithoutLocation(slot)
    \/ EndNavigation

Spec == Init /\ [][Next]_vars

----------------------------------------------------------------------------
(* Claims about the camera *)

InteractionCall == call.op = "handleUserMapInteraction"

IdleTimerRestarted ==
    /\ userIdleTimeoutRef.pending
    /\ userIdleTimeoutRef.due = now + USER_IDLE_TIMEOUT

C2_AsStated ==
    (navigationState.isNavigating /\ cameraState.isUserControlled) =>
        now - Max(lastInteractionEvent, navigatingSince) <= USER_IDLE_TIMEOUT

\* C3 as stated: every interaction event cancels the pending firing and restarts
\* the full timeout, and the idle timer never fires less than the idle timeout
\* after the most recent interaction event.
C3_AsStated ==
    /\ (InteractionCall /\ call.pre.userIdleTimeoutRef.pending) => IdleTimerRestarted
    /\ call.op = "idleTimeout" => now - lastInteractionEvent >= USER_IDLE_TIMEOUT

\* C3 amended: every interaction event that passes the 100 ms throttle cancels
\* the pending firing and restarts the full timeout; an event is dropped only
\* within 100 ms of one that passed, and leaves the timer as it was; so the idle
\* timer fires no less than the idle timeout after the last event that passed,
\* and no less than the idle timeout minus 100 ms after the last event.
C3_Throttled ==
    /\ (InteractionCall /\ call.ret /\ call.pre.userIdleTimeoutRef.pending) =>
           IdleTimerRestarted
    /\ (InteractionCall /\ ~call.ret) =>
           /\ userIdleTimeoutRef = call.pre.userIdleTimeoutRef
           /\ now - cameraState.lastUserInteraction < INTERACTION_THROTTLE_DELAY
    /\ call.op = "idleTimeout" =>
           /\ now - cameraState.lastUserInteraction >= USER_IDLE_TIMEOUT
           /\ now - lastInteractionEvent > USER_IDLE_TIMEOUT - INTERACTION_THROTTLE_DELAY

\* the timer fires less than 10 s after a gesture that the throttle dropped
C3_Witness ==
    /\ call.op = "idleTimeout"
    /\ now - lastInteractionEvent < USER_IDLE_TIMEOUT
    /\ ~cameraState.isUserControlled

\* C4: after endNavigation, whatever the camera state and the pending timer
\* before, navigation is inactive, the camera is Autonomous with bearing 0 and
\* pitch 0 and no idle timer is pending; endNavigation applied again gives the
\* same state.
C4_EndNavigation ==
    call.op = "handleEndNavigation" =>
        /\ ~navigationState.isNavigating
        /\ navigationState = IdleNavigationState
        /\ ~cameraState.isUserControlled
        /\ cameraState.bearing = 0
        /\ cameraState.pitch = 0
        /\ ~userIdleTimeoutRef.pending
        /\ ~ENABLED IdleTimeoutFires
        /\ EndNavigationCamera(cameraState) = cameraState
        /\ EndNavigationTimeout(userIdleTimeoutRef) = userIdleTimeoutRef

C4_Witness ==
    /\ call.op = "handleEndNavigation"
    /\ call.pre.cameraState.isUserControlled
    /\ call.pre.userIdleTimeoutRef.pending
    /\ ~cameraState.isUserControlled
    /\ ~userIdleTimeoutRef.pending

\* the next-turn distance of the position sample observed, on the active route
SampleNextTurnDistance ==
    calculateProgress(call.coord, navigationState.currentRoute,
                      findCurrentStepIndex(call.coord, navigationState.currentRoute)
                     ).nextTurnDistance

\* C5 as stated: after an accepted position sample, with navigation active and
\* the camera Autonomous, the camera request in effect has the turn zoom and a
\* nonzero pitch when the sample's nextTurnDistance is below 50 m, and the
\* default zoom and zero pitch when it is 50 m or more or absent.
C5_AsStated ==
    ( /\ call.op = "onLocationSample" /\ call.ret
      /\ navigationState.isNavigating
      /\ ~cameraState.isUserControlled ) =>
        /\ poseRequest.kind = "animateCamera"
        /\ IF /\ SampleNextTurnDistance # Absent
              /\ SampleNextTurnDistance < TURN_HIGHLIGHT_DISTANCE * CmPerMeter
           THEN poseRequest.zoom = TURN_ZOOM /\ poseRequest.pitch > 0
           ELSE poseRequest.zoom \in {INITIAL_ZOOM, FOLLOW_ZOOM} /\ poseRequest.pitch = 0

----------------------------------------------------------------------------
(* The gates of PerformanceOptimizer, called directly *)

Speeds == {Absent, 0, 1, 5}

ShouldUpdateLocation(coord, speed) ==
    LET r == shouldUpdateLocation(ThrottleState, speed, now)
    IN  /\ SetThrottle(r.st)
        /\ Observe("shouldUpdateLocation", coord, speed, r.ret)
        /\ UNCHANGED << now, ticks, serviceVars, componentVars >>

ShouldUpdateOrientation ==
    LET r == shouldUpdateOrientation(ThrottleState, now)
    IN  /\ SetThrottle(r.st)
        /\ Observe("shouldUpdateOrientation", Absent, Absent, r.ret)
        /\ UNCHANGED << now, ticks, serviceVars, componentVars >>

ShouldUpdateMap(coord) ==
    LET r == shouldUpdateMap(ThrottleState, coord)
    IN  /\ SetThrottle(r.st)
        /\ Observe("shouldUpdateMap", coord, Absent, r.ret)
        /\ UNCHANGED << now, ticks, serviceVars, componentVars >>

Reset ==
    /\ SetThrottle(reset(ThrottleState))
    /\ Observe("reset", Absent, Absent, FALSE)
    /\ UNCHANGED << now, ticks, serviceVars, componentVars >>

\* clock steps that meet the 1000 ms, 5000 ms and 30 s thresholds exactly
LocationGateSteps == {10, 990, 100, 4000, 30000}

NextLocationGate ==
    \/ \E d \in LocationGateSteps : ticks < MaxTicks /\ Tick(d)
    \/ \E speed \in Speeds : ShouldUpdateLocation(0, speed)
    \/ Reset

SpecLocationGate == Init /\ [][NextLocationGate]_vars

\* clock steps around the 100 ms threshold
OrientationGateSteps == {1, 10, 89, 100}

NextOrientationGate ==
    \/ \E d \in OrientationGateSteps : ticks < MaxTicks /\ Tick(d)
    \/ ShouldUpdateOrientation
    \/ \E h \in Headings : OnOrientationSample(h)
    \/ Reset

SpecOrientationGate == Init /\ [][NextOrientationGate]_vars

\* points 5 m apart, and the two either side of 10 m (89 and 90 micro-degrees)
MapPositions == {0, 45, 89, 90, 135, 180}

MapGateSteps == {10, 1000}

NextMapGate ==
    \/ \E d \in MapGateSteps : ticks < MaxTicks /\ Tick(d)
    \/ \E coord \in MapPositions : ShouldUpdateMap(coord)
    \/ Reset

SpecMapGate == Init /\ [][NextMapGate]_vars

----------------------------------------------------------------------------
(* Claims about the update throttler *)

LocationCall == call.op = "shouldUpdateLocation"

\* time since the last accepted position sample, at the call observed
LocationElapsed == now - call.pre.throttle.lastLocationUpdate

\* the call observed was not the first since construction or reset()
LocationNotFirst == call.pre.throttle.lastLocationUpdate # 0

LongStationary ==
    isStationary /\ now - stationaryStartTime > STATIONARY_THRESHOLD

\* C6 as stated: a position sample less than 1000 ms after the last accepted one
\* is rejected and leaves the last-accepted timestamp alone, accepted samples are
\* at least 1000 ms apart, and a sample 1100 ms after the last accepted one is
\* accepted.
C6_AsStated ==
    (LocationCall /\ LocationNotFirst) =>
        /\ LocationElapsed < LOCATION_UPDATE_INTERVAL => ~call.ret
        /\ ~call.ret => lastLocationUpdate = call.pre.throttle.lastLocationUpdate
        /\ call.ret => LocationElapsed >= LOCATION_UPDATE_INTERVAL
        /\ LocationElapsed = 1100 => call.ret

\* C6 amended: as C6, but the sample 1100 ms after the last accepted one is
\* accepted unless the agent has by then been stationary for more than 30 s.
C6_TimeGate ==
    (LocationCall /\ LocationNotFirst) =>
        /\ LocationElapsed < LOCATION_UPDATE_INTERVAL => ~call.ret
        /\ ~call.ret => lastLocationUpdate = call.pre.throttle.lastLocationUpdate
        /\ call.ret => LocationElapsed >= LOCATION_UPDATE_INTERVAL
        /\ (LocationElapsed >= LOCATION_UPDATE_INTERVAL /\ ~LongStationary) => call.ret

C6_Witness ==
    /\ LocationCall /\ LocationNotFirst
    /\ LocationElapsed = 1100
    /\ call.ret
    /\ lastLocationUpdate = now

\* C7: the first position sample after construction or reset() is accepted,
\* whatever its speed and arrival time, and its time becomes the last-accepted
\* timestamp.
C7_FirstSampleAccepted ==
    (LocationCall /\ ~LocationNotFirst) =>
        /\ call.ret
        /\ lastLocationUpdate = now

C7_Witness ==
    /\ LocationCall /\ ~LocationNotFirst
    /\ call.ret
    /\ call.speed = 0
    /\ now > StartTime

\* C8: when the agent has been stationary for more than 30 s, a sample below
\* the speed threshold is accepted exactly when 5000 ms have passed since the
\* last accepted one, and a sample at or above the threshold is accepted as soon
\* as 1000 ms have passed.
C8_ReducedCadence ==
    ( /\ LocationCall
      /\ call.pre.throttle.isStationary
      /\ now - call.pre.throttle.stationaryStartTime > STATIONARY_THRESHOLD ) =>
        IF SpeedOrZero(call.speed) < STATIONARY_SPEED_THRESHOLD
        THEN call.ret <=> LocationElapsed >= STATIONARY_LOCATION_INTERVAL
        ELSE call.ret <=> LocationElapsed >= LOCATION_UPDATE_INTERVAL

C8_Witness ==
    /\ LocationCall
    /\ call.pre.throttle.isStationary
    /\ now - call.pre.throttle.stationaryStartTime > STATIONARY_THRESHOLD
    /\ SpeedOrZero(call.speed) < STATIONARY_SPEED_THRESHOLD
    /\ LocationElapsed >= LOCATION_UPDATE_INTERVAL
    /\ ~call.ret

OrientationCall == call.op = "shouldUpdateOrientation"

OrientationElapsed == now - call.pre.throttle.lastOrientationUpdate

\* C9: a heading sample is accepted exactly when at least 100 ms have passed
\* since the last accepted heading sample; acceptance records its time, a
\* rejection leaves the timestamp alone, and the first heading sample after
\* construction or reset() is accepted.
C9_OrientationGate ==
    OrientationCall =>
        /\ call.ret <=> OrientationElapsed >= ORIENTATION_UPDATE_INTERVAL
        /\ call.ret => lastOrientationUpdate = now
        /\ ~call.ret => lastOrientationUpdate = call.pre.throttle.lastOrientationUpdate
        /\ call.pre.throttle.lastOrientationUpdate = 0 => call.ret

C9_Witness ==
    /\ OrientationCall
    /\ call.pre.throttle.lastOrientationUpdate # 0
    /\ OrientationElapsed = ORIENTATION_UPDATE_INTERVAL
    /\ call.ret

MapCall == call.op = "shouldUpdateMap"

\* distance of the sample from the reference point held before the call
MapDistance == calculateDistance(call.pre.throttle.lastMapUpdateLocation, call.coord)

\* C10: the first sample after construction or reset() is accepted; later a
\* sample is accepted exactly when it is at least 10 m from the reference
\* point, whatever the time; the reference point becomes the accepted sample
\* and does not move otherwise.
C10_MapGate ==
    /\ MapCall =>
         IF call.pre.throttle.lastMapUpdateLocation = Absent
         THEN call.ret /\ lastMapUpdateLocation = call.coord
         ELSE /\ call.ret <=> MapDistance >= MAP_UPDATE_DISTANCE_THRESHOLD * CmPerMeter
              /\ lastMapUpdateLocation =
                   IF call.ret THEN call.coord
                   ELSE call.pre.throttle.lastMapUpdateLocation
    /\ call.op = "tick" => lastMapUpdateLocation = call.pre.throttle.lastMapUpdateLocation

\* two steps of 5 m from the reference point at 0: the second is accepted
C10_Witness ==
    /\ MapCall
    /\ call.pre.throttle.lastMapUpdateLocation = 0
    /\ call.coord = 90
    /\ call.ret
    /\ lastMapUpdateLocation = 90

----------------------------------------------------------------------------
(* PerformanceOptimizer: power saving *)

\* isPowerSavingMode(): the device's mode is not read
isPowerSavingMode == FALSE

\* getAdaptiveIntervals()
getAdaptiveIntervals ==
    LET multiplier == IF isPowerSavingMode THEN POWER_SAVING_MULTIPLIER ELSE 1
    IN  [ locationInterval    |-> LOCATION_UPDATE_INTERVAL * multiplier,
          orientationInterval |-> ORIENTATION_UPDATE_INTERVAL * multiplier,
          mapUpdateInterval   |-> MAP_UPDATE_INTERVAL * multiplier ]

GetAdaptiveIntervals ==
    /\ adaptiveIntervals' = getAdaptiveIntervals
    /\ Observe("getAdaptiveIntervals", Absent, Absent, TRUE)
    /\ UNCHANGED << now, ticks, throttleVars, componentVars, orientationVars,
                    devicePowerSaving, routing, utilityVars, streamVars,
                    currentRoute >>

\* the user switches the device's power saving mode on or off
SetDevicePowerSaving(on) ==
    /\ devicePowerSaving # on
    /\ devicePowerSaving' = on
    /\ Observe("setDevicePowerSaving", Absent, Absent, on)
    /\ UNCHANGED << now, ticks, throttleVars, componentVars, orientationVars,
                    adaptiveIntervals, routing, utilityVars, streamVars,
                    currentRoute >>

\* clock steps around 100 ms, 200 ms, 1000 ms and 2000 ms
PowerSavingSteps == {100, 900, 1000}

NextPowerSaving ==
    \/ \E d \in PowerSavingSteps : ticks < MaxTicks /\ Tick(d)
    \/ \E on \in BOOLEAN : SetDevicePowerSaving(on)
    \/ \E speed \in SampleSpeeds : ShouldUpdateLocation(0, speed)
    \/ ShouldUpdateOrientation
    \/ GetAdaptiveIntervals

SpecPowerSaving == Init /\ [][NextPowerSaving]_vars

\* C11 as stated: while power saving is active the gates apply doubled
\* thresholds (position samples rejected until 2000 ms, heading samples until
\* 200 ms after the last accepted one) and the reported intervals, the
\* map-update interval included, are doubled; when it is inactive they are the
\* base values.
C11_AsStated ==
    /\ (LocationCall /\ LocationNotFirst /\ devicePowerSaving) =>
           (LocationElapsed < POWER_SAVING_MULTIPLIER * LOCATION_UPDATE_INTERVAL
                => ~call.ret)
    /\ (OrientationCall /\ call.pre.throttle.lastOrientationUpdate # 0
            /\ devicePowerSaving) =>
           (OrientationElapsed < POWER_SAVING_MULTIPLIER * ORIENTATION_UPDATE_INTERVAL
                => ~call.ret)
    /\ call.op = "getAdaptiveIntervals" =>
           LET m == IF devicePowerSaving THEN POWER_SAVING_MULTIPLIER ELSE 1
           IN  adaptiveIntervals = [ locationInterval    |-> LOCATION_UPDATE_INTERVAL * m,
                                     orientationInterval |-> ORIENTATION_UPDATE_INTERVAL * m,
                                     mapUpdateInterval   |-> MAP_UPDATE_INTERVAL * m ]

----------------------------------------------------------------------------
(* PerformanceOptimizer: reset() *)

ThrottlerSteps == {100, 1000}

ThrottlerPositions == {0, 90}

NextThrottler ==
    \/ \E d \in ThrottlerSteps : ticks < MaxTicks /\ Tick(d)
    \/ \E speed \in Speeds : ShouldUpdateLocation(0, speed)
    \/ ShouldUpdateOrientation
    \/ \E coord \in ThrottlerPositions : ShouldUpdateMap(coord)
    \/ Reset

SpecThrottler == Init /\ [][NextThrottler]_vars

\* C12: after reset(), from any throttle state, the five fields equal their
\* initial values, so every gate decides the next sample, whatever it is, as a
\* freshly constructed throttler does at the same time.
C12_Reset ==
    call.op = "reset" =>
        /\ ThrottleState = InitialThrottleState
        /\ \A speed \in Speeds :
              shouldUpdateLocation(ThrottleState, speed, now)
                  = shouldUpdateLocation(InitialThrottleState, speed, now)
        /\ shouldUpdateOrientation(ThrottleState, now)
              = shouldUpdateOrientation(InitialThrottleState, now)
        /\ \A coord \in ThrottlerPositions :
              shouldUpdateMap(ThrottleState, coord)
                  = shouldUpdateMap(InitialThrottleState, coord)

\* reset() called with every field away from its initial value
C12_Witness ==
    /\ call.op = "reset"
    /\ call.pre.throttle.lastLocationUpdate # 0
    /\ call.pre.throttle.lastOrientationUpdate # 0
    /\ call.pre.throttle.isStationary
    /\ call.pre.throttle.stationaryStartTime # 0
    /\ call.pre.throttle.lastMapUpdateLocation # Absent
    /\ ThrottleState = InitialThrottleState

----------------------------------------------------------------------------
(* Claims about the progress state *)

\* the progress of the position sample observed, on the active route
SampleStepIndex == findCurrentStepIndex(call.coord, navigationState.currentRoute)

SampleProgress ==
    calculateProgress(call.coord, navigationState.currentRoute, SampleStepIndex)

\* C13 as stated: while navigation is active, after a position sample the
\* throttler accepted, every field of the progress state is the one computed
\* from that sample against the active route.
C13_AsStated ==
    (call.op = "onLocationSample" /\ call.ret /\ navigationState.isNavigating) =>
        /\ navigationState.currentStepIndex = SampleStepIndex
        /\ navigationState.remainingDistance = SampleProgress.remainingDistance
        /\ navigationState.nextTurnInstruction = SampleProgress.nextTurnInstruction
        /\ navigationState.nextTurnDistance = SampleProgress.nextTurnDistance

\* A duration as calculateProgress computes it: the quotient num / den of two
\* whole numbers while the arithmetic stays finite, else one of the two values
\* a division by zero produces.
Finite(num, den) == [kind |-> "finite", num |-> num, den |-> den]

Infinity == [kind |-> "Infinity", num |-> 0, den |-> 1]

NaN == [kind |-> "NaN", num |-> 0, den |-> 1]

RECURSIVE SumStepDurations(_, _)
SumStepDurations(steps, from) ==
    IF from > Len(steps) THEN 0
    ELSE steps[from].duration + SumStepDurations(steps, from + 1)

\* the remainingTime of calculateProgress(currentPosition, route, currentStepIndex):
\* (distanceToStepEnd / currentStep.distance) * currentStep.duration, then the
\* durations of the later steps.  With currentStep.distance = 0 the quotient is
\* 0 / 0 = NaN or d / 0 = Infinity, and Infinity * 0 = NaN.
remainingTime(currentPosition, route, currentStepIndex) ==
    LET steps == route.steps
        currentStep == steps[currentStepIndex + 1]
        distanceToStepEnd ==
            calculateDistance(currentPosition,
                              currentStep.coordinates[Len(currentStep.coordinates)])
        later == SumStepDurations(steps, currentStepIndex + 2)
    IN  IF ~(currentStepIndex < Len(steps)) THEN Finite(0, 1)
        ELSE IF currentStep.distance # 0
        THEN Finite(distanceToStepEnd * currentStep.duration
                        + later * currentStep.distance,
                    currentStep.distance)
        ELSE IF distanceToStepEnd = 0 \/ currentStep.duration = 0 THEN NaN
        ELSE Infinity

----------------------------------------------------------------------------
(* RoutingService: findCurrentStepIndex and calculateProgress, called directly *)

\* a step as a routing provider returns it: the polyline from its start to its
\* end, and the distance between the two
RouteStep(instruction, coordinates) ==
    [ instruction |-> instruction,
      distance    |-> calculateDistance(coordinates[1], coordinates[Len(coordinates)]),
      duration    |-> Round(calculateDistance(coordinates[1], coordinates[Len(coordinates)]),
                            1389),
      coordinates |-> coordinates ]

\* the destination 3000 m north of 0 (2999.93 m on the grid of micro-degrees)
Destination3000 == 26979

\* the mock provider's route of three steps, each holding its start point only
MockRoute3000 == getMockRoute(0, Destination3000)

\* three steps of 1000 m, each holding its polyline, end point included
PolylineRoute3000 ==
    [ distance    |-> calculateDistance(0, Destination3000),
      duration    |-> Round(calculateDistance(0, Destination3000), 1389),
      steps       |-> << RouteStep(<< "Head north on current road" >>, << 0, 4496, 8993 >>),
                         RouteStep(<< "Turn", "right", "onto", "Boulevard" >>,
                                   << 8993, 17986 >>),
                         RouteStep(<< "Arrive at destination" >>,
                                   << 17986, 22482, 26979 >>) >>,
      coordinates |-> << 0, 4496, 8993, 17986, 22482, 26979 >> ]

\* the straight route from A = 0 to B = 1800, one step of two points
TwoPointRoute ==
    [ distance    |-> calculateDistance(0, 1800),
      duration    |-> Round(calculateDistance(0, 1800), 1389),
      steps       |-> << RouteStep(<< "Head north on current road" >>, << 0, 1800 >>) >>,
      coordinates |-> << 0, 1800 >> ]

\* a route that comes back on itself: its steps pass the same points
ReturnRoute ==
    [ distance    |-> 2 * calculateDistance(0, 1800),
      duration    |-> Round(2 * calculateDistance(0, 1800), 1389),
      steps       |-> << RouteStep(<< "Head north on current road" >>, << 0, 900 >>),
                         RouteStep(<< "Continue straight on", "Street" >>, << 900, 1800 >>),
                         RouteStep(<< "Arrive at destination" >>, << 1800, 900, 0 >>) >>,
      coordinates |-> << 0, 900, 1800, 900, 0 >> ]

\* the mock provider's route for a user who stands on the destination: three
\* steps of distance 0 and duration 0
StandstillRoute == getMockRoute(900, 900)

\* a route through a waypoint that is given twice: its middle step has no length
WaypointTwiceRoute ==
    [ distance    |-> calculateDistance(0, 1800),
      duration    |-> Round(calculateDistance(0, 1800), 1389),
      steps       |-> << RouteStep(<< "Head north on current road" >>, << 0, 900 >>),
                         RouteStep(<< "Continue straight on", "Street" >>, << 900, 900 >>),
                         RouteStep(<< "Arrive at destination" >>, << 900, 1800 >>) >>,
      coordinates |-> << 0, 900, 900, 1800 >> ]

Routes ==
    {MockRoute3000, PolylineRoute3000, TwoPointRoute, ReturnRoute, StandstillRoute,
     WaypointTwiceRoute}

RoutePositions == {0, 450, 900, 1350, 1800, 4496, 8993, 13489, 17986, 26979}

FindCurrentStepIndex(position, route) ==
    /\ routing' = [ op |-> "findCurrentStepIndex", currentPosition |-> position,
                    route |-> route,
                    currentStepIndex |-> findCurrentStepIndex(position, route),
                    progress |-> NoProgress, remainingTime |-> NoTime ]
    /\ Observe("findCurrentStepIndex", position, Absent, TRUE)
    /\ UNCHANGED << now, ticks, throttleVars, componentVars, orientationVars,
                    devicePowerSaving, adaptiveIntervals, utilityVars, streamVars,
                    currentRoute >>

CalculateProgress(position, route, currentStepIndex) ==
    /\ routing' = [ op |-> "calculateProgress", currentPosition |-> position,
                    route |-> route, currentStepIndex |-> currentStepIndex,
                    progress |-> calculateProgress(position, route, currentStepIndex),
                    remainingTime |-> remainingTime(position, route, currentStepIndex) ]
    /\ Observe("calculateProgress", position, Absent, TRUE)
    /\ UNCHANGED << now, ticks, throttleVars, componentVars, orientationVars,
                    devicePowerSaving, adaptiveIntervals, utilityVars, streamVars,
                    currentRoute >>

NextRouting ==
    \/ \E position \in RoutePositions, route \in Routes :
           FindCurrentStepIndex(position, route)
    \/ \E position \in RoutePositions, route \in Routes :
           \E currentStepIndex \in 0..(Len(route.steps) - 1) :
               CalculateProgress(position, route, currentStepIndex)

SpecRouting == Init /\ [][NextRouting]_vars

ProgressCall == routing.op = "calculateProgress"

\* a route of three legs and 3000 m
ThreeLegRoute3000 ==
    /\ Len(routing.route.steps) = 3
    /\ routing.route.distance = calculateDistance(0, Destination3000)

\* the position is the first geometry point of leg 2, and the leg index the one
\* findCurrentStepIndex gives for it
AtLegTwoStart ==
    /\ routing.currentPosition = routing.route.steps[2].coordinates[1]
    /\ routing.currentStepIndex =
           findCurrentStepIndex(routing.currentPosition, routing.route)

\* C14 as stated: on a 3-leg route of 3000 m, the progress of a position sample
\* at the start of leg 2 has remainingDistance = distance of leg 2 + distance of
\* leg 3 and nextTurnInstruction = the instruction text of leg 3.
C14_AsStated ==
    (ProgressCall /\ ThreeLegRoute3000 /\ AtLegTwoStart) =>
        /\ routing.progress.remainingDistance =
               routing.route.steps[2].distance + routing.route.steps[3].distance
        /\ routing.progress.nextTurnInstruction = routing.route.steps[3].instruction

\* the legs of the route of the call observed, and the 1-based index of the
\* current one
RoutingSteps == routing.route.steps

CurrentLeg == routing.currentStepIndex + 1

FinalPoint(step) == step.coordinates[Len(step.coordinates)]

\* the sum of the distances of the legs after the current one
LaterLegsDistance ==
    LET Later[k \in (CurrentLeg + 1)..(Len(RoutingSteps) + 1)] ==
            IF k > Len(RoutingSteps) THEN 0
            ELSE RoutingSteps[k].distance + Later[k + 1]
    IN  Later[CurrentLeg + 1]

\* C15: for every route, position and leg index within the route,
\* remainingDistance = distance(position, final geometry point of the current
\* leg) + the sum of the distances of all later legs; on the two-point route
\* A -> B with the position at the midpoint it is distance(midpoint, B).
C15_RemainingDistance ==
    ProgressCall =>
        /\ routing.progress.remainingDistance =
               calculateDistance(routing.currentPosition,
                                 FinalPoint(RoutingSteps[CurrentLeg]))
                   + LaterLegsDistance
        /\ (routing.route = TwoPointRoute /\ routing.currentPosition = 900) =>
               routing.progress.remainingDistance = calculateDistance(900, 1800)

\* the midpoint of the two-point route, 100 m from B
C15_Witness ==
    /\ ProgressCall
    /\ routing.route = TwoPointRoute
    /\ 2 * routing.currentPosition = 0 + 1800
    /\ routing.progress.remainingDistance = calculateDistance(900, 1800)
    /\ routing.progress.remainingDistance > 0

\* C16: nextTurnInstruction and nextTurnDistance are the instruction text of
\* the leg after the current one and the distance from the position to its
\* first geometry point; at the final leg both are absent.
C16_NextTurn ==
    ProgressCall =>
        IF CurrentLeg < Len(RoutingSteps)
        THEN /\ routing.progress.hasNextTurn
             /\ routing.progress.nextTurnInstruction =
                    RoutingSteps[CurrentLeg + 1].instruction
             /\ routing.progress.nextTurnDistance =
                    calculateDistance(routing.currentPosition,
                                      RoutingSteps[CurrentLeg + 1].coordinates[1])
        ELSE /\ ~routing.progress.hasNextTurn
             /\ routing.progress.nextTurnInstruction = << >>
             /\ routing.progress.nextTurnDistance = Absent

\* a next leg of several points, away from the position
C16_Witness ==
    /\ ProgressCall
    /\ CurrentLeg < Len(RoutingSteps)
    /\ Len(RoutingSteps[CurrentLeg + 1].coordinates) > 1
    /\ routing.progress.hasNextTurn
    /\ routing.progress.nextTurnDistance > 0
    /\ routing.progress.nextTurnInstruction = << "Turn", "right", "onto", "Boulevard" >>

\* the distance from the position of the call observed to the closest geometry
\* point of leg i
LegDistance(i) ==
    LET ds == { calculateDistance(routing.currentPosition, RoutingSteps[i].coordinates[j]) :
                  j \in 1..Len(RoutingSteps[i].coordinates) }
    IN  CHOOSE d \in ds : \A e \in ds : d <= e

\* C17: findCurrentStepIndex returns the leg that holds the geometry point
\* closest to the position over all points of all legs, and the first such leg
\* in route order when several legs hold a point at the minimum distance.
C17_ClosestLeg ==
    routing.op = "findCurrentStepIndex" =>
        /\ CurrentLeg \in 1..Len(RoutingSteps)
        /\ \A i \in 1..Len(RoutingSteps) : LegDistance(CurrentLeg) <= LegDistance(i)
        /\ \A i \in 1..(CurrentLeg - 1) : LegDistance(CurrentLeg) < LegDistance(i)

\* two legs hold a point at the minimum distance, which is not 0
C17_Witness ==
    /\ routing.op = "findCurrentStepIndex"
    /\ LegDistance(CurrentLeg) > 0
    /\ \E i \in (CurrentLeg + 1)..Len(RoutingSteps) :
           LegDistance(i) = LegDistance(CurrentLeg)

----------------------------------------------------------------------------
(* OrientationService: heading smoothing *)

\* heading events handled in one behaviour
MaxHeadingUpdates == 3

\* Headings are JavaScript numbers, binary floating point rounded to nearest,
\* ties to even, after every operation.  The model keeps that arithmetic at a
\* reduced precision: a number is a whole multiple of 1 / HeadingScale degree
\* with at most twelve significant bits (MantissaLimit = 2^12) where the
\* source has fifty-three.  Whole degrees below 4096 are exact in both.
HeadingScale == 512

MantissaLimit == 4096

\* this.smoothingFactor = factor / SmoothingScale
SmoothingScale == 10

Degrees(d) == d * HeadingScale

\* the spacing of the representable numbers at magnitude a
RECURSIVE Quantum(_)
Quantum(a) == IF a < MantissaLimit THEN 1 ELSE 2 * Quantum(a \div 2)

\* x / q rounded to the nearest whole number, ties to even
RoundHalfEven(x, q) ==
    LET n == Abs(x) \div q
        r == Abs(x) % q
        m == IF 2 * r > q \/ (2 * r = q /\ n % 2 = 1) THEN n + 1 ELSE n
    IN  IF x < 0 THEN -m ELSE m

\* the representable number nearest to x: the result of a sum or a difference
\* whose exact value is x
Float(x) == RoundHalfEven(x, Quantum(Abs(x))) * Quantum(Abs(x))

\* the result of diff * weight, the weight in units of 1 / HeadingScale
FloatProduct(diff, weight) ==
    LET exact == diff * weight
        q     == Quantum(Abs(exact) \div HeadingScale)
    IN  RoundHalfEven(exact, q * HeadingScale) * q

\* 1 - this.smoothingFactor in units of 1 / HeadingScale, the factor being the
\* number nearest to factor / SmoothingScale
OneMinus(factor) ==
    HeadingScale - RoundHalfEven(factor * HeadingScale, SmoothingScale)

\* normalizeHeading(heading)
RECURSIVE normalizeHeading(_)
normalizeHeading(heading) ==
    IF heading < 0 THEN normalizeHeading(Float(heading + Degrees(360)))
    ELSE IF heading >= Degrees(360) THEN normalizeHeading(Float(heading - Degrees(360)))
    ELSE heading

\* faulty variant: the weights of the previous and the new heading are swapped
applySmoothingToHeading_WeightsSwapped(currentHeading, newHeading, factor) ==
    LET d == Float(newHeading - currentHeading)
        diff == IF d > Degrees(180) THEN Float(d - Degrees(360))
                ELSE IF d < -Degrees(180) THEN Float(d + Degrees(360))
                ELSE d
        smoothedDiff == FloatProduct(diff, HeadingScale - OneMinus(factor))
    IN  normalizeHeading(Float(currentHeading + smoothedDiff))

\* faulty variant: the difference is not taken the short way round
applySmoothingToHeading_NoWrap(currentHeading, newHeading, factor) ==
    LET diff == Float(newHeading - currentHeading)
        smoothedDiff == FloatProduct(diff, OneMinus(factor))
    IN  normalizeHeading(Float(currentHeading + smoothedDiff))

\* faulty variant: the difference is added whole, whatever the factor
applySmoothingToHeading_Unweighted(currentHeading, newHeading, factor) ==
    LET d == Float(newHeading - currentHeading)
        diff == IF d > Degrees(180) THEN Float(d - Degrees(360))
                ELSE IF d < -Degrees(180) THEN Float(d + Degrees(360))
                ELSE d
    IN  normalizeHeading(Float(currentHeading + diff))

\* applySmoothingToHeading(currentHeading, newHeading) with this.smoothingFactor
\* = factor / SmoothingScale
applySmoothingToHeading(currentHeading, newHeading, factor) ==
    LET d == Float(newHeading - currentHeading)
        diff == IF d > Degrees(180) THEN Float(d - Degrees(360))
                ELSE IF d < -Degrees(180) THEN Float(d + Degrees(360))
                ELSE d
        smoothedDiff == FloatProduct(diff, OneMinus(factor))
    IN  normalizeHeading(Float(currentHeading + smoothedDiff))

\* faulty variant: a missing previous heading is taken to be north
handleOrientationChange_FromNorth(last, raw, factor) ==
    applySmoothingToHeading(IF last = Absent THEN 0 ELSE last,
                            normalizeHeading(raw), factor)

\* the heading handleOrientationChange(orientation) stores and hands to the
\* callbacks, for orientation.heading = raw and this.lastOrientation = last
handleOrientationChange(last, raw, factor) ==
    LET heading == normalizeHeading(raw)
    IN  IF last # Absent THEN applySmoothingToHeading(last, heading, factor)
        ELSE heading

\* the listeners in a registry
Registered(callbacks) == { callbacks[i] : i \in 1..Len(callbacks) }

\* Set.add(callback)
AddCallback(callbacks, callback) ==
    IF callback \in Registered(callbacks) THEN callbacks ELSE Append(callbacks, callback)

\* Set.delete(callback)
DeleteCallback(callbacks, callback) ==
    SelectSeq(callbacks, LAMBDA c : c # callback)

\* notifyOrientationCallbacks(orientation): the callbacks called, in order,
\* and whether an exception leaves the function; the callbacks in throwing
\* throw when called
RECURSIVE notifyOrientationCallbacks(_, _)
notifyOrientationCallbacks(callbacks, throwing) ==
    IF callbacks = << >> THEN [delivered |-> << >>, escaped |-> FALSE]
    ELSE LET rest == notifyOrientationCallbacks(Tail(callbacks), throwing)
         IN  [ delivered |-> << Head(callbacks) >> \o rest.delivered,
               escaped   |-> rest.escaped ]

\* the record kept of a notification
Notification(stream, callbacks, throwing, result) ==
    [ stream      |-> stream,
      callbacks   |-> callbacks,
      throwing    |-> throwing \cap Registered(result.delivered),
      delivered   |-> result.delivered,
      escaped     |-> result.escaped,
      threwBefore |-> IF notified.stream = stream
                      THEN notified.threwBefore \cup notified.throwing
                      ELSE {} ]

\* handleOrientationChange(orientation) for orientation.heading = raw, the
\* listeners in throwing throwing when they are called
HandleOrientationChange(raw, throwing) ==
    /\ headingUpdates < MaxHeadingUpdates
    /\ headingUpdates' = headingUpdates + 1
    /\ lastOrientation' = handleOrientationChange(lastOrientation, raw, smoothingFactor)
    /\ notified' = Notification("orientation", orientationCallbacks, throwing,
                                notifyOrientationCallbacks(orientationCallbacks, throwing))
    /\ UNCHANGED << smoothingFactor, locationCallbacks, orientationCallbacks,
                    lastKnownLocation >>
    /\ Observe("handleOrientationChange", raw, Absent, TRUE)
    /\ UNCHANGED << now, ticks, throttleVars, componentVars, devicePowerSaving,
                    adaptiveIntervals, routing, utilityVars, currentRoute >>

\* NaN as an argument of setSmoothingFactor and as the factor stored: a number
\* that no comparison orders, kept as a value far from every factor in tenths
NotANumber == -1000000

\* setSmoothingFactor(factor): Math.max(0, Math.min(1, factor)); Math.min and
\* Math.max return NaN when an argument is NaN
setSmoothingFactor(factor) ==
    IF factor = NotANumber THEN NotANumber
    ELSE Max(0, Min(SmoothingScale, factor))

SetSmoothingFactor(factor) ==
    /\ smoothingFactor' = setSmoothingFactor(factor)
    /\ UNCHANGED << lastOrientation, headingUpdates >>
    /\ Observe("setSmoothingFactor", factor, Absent, TRUE)
    /\ UNCHANGED << now, ticks, throttleVars, componentVars, devicePowerSaving,
                    adaptiveIntervals, routing, utilityVars, streamVars,
                    currentRoute >>

\* cleanup(): stopListening(), orientationCallbacks.clear(), lastOrientation =
\* null
Cleanup ==
    /\ lastOrientation' = Absent
    /\ orientationCallbacks' = << >>
    /\ UNCHANGED << smoothingFactor, headingUpdates, locationCallbacks, notified,
                    lastKnownLocation >>
    /\ Observe("cleanup", Absent, Absent, TRUE)
    /\ UNCHANGED << now, ticks, throttleVars, componentVars, devicePowerSaving,
                    adaptiveIntervals, routing, utilityVars, currentRoute >>

\* raw headings: the four device orientations, two either side of north, two
\* outside [0, 360), and two that are not whole degrees, 7/128 and 300 1/8
RawHeadings ==
    { Degrees(d) : d \in {0, 10, 90, 180, 270, 350, 360, -10} }
        \cup { 7 * (HeadingScale \div 128), Degrees(300) + HeadingScale \div 8 }

SmoothingFactors == {-5, 0, 5, 8, 10, 15}

NextOrientation ==
    \/ \E raw \in RawHeadings : HandleOrientationChange(raw, {})
    \/ \E factor \in SmoothingFactors : SetSmoothingFactor(factor)
    \/ Cleanup

SpecOrientation == Init /\ [][NextOrientation]_vars

----------------------------------------------------------------------------
(* Claims about the heading smoother *)

HeadingCall == call.op = "handleOrientationChange"

\* the raw heading of the call observed is a heading, in [0, 360)
RawInRange == 0 <= call.coord /\ call.coord < Degrees(360)

PreviousHeading == call.pre.lastOrientation

\* the angle between two headings, the short way round
HeadingDistance(a, b) == Min(Abs(a - b), Degrees(360) - Abs(a - b))

WholeDegrees(heading) == heading % HeadingScale = 0

\* the spacing of the representable headings just below 360 degrees
HeadingQuantum == Quantum(Degrees(360) - 1)

\* C18 as stated: with smoothing factor 0 a heading update returns the raw
\* heading itself, on the first call and on every later one, whatever the
\* previous smoothed heading, also across the 0/360 wraparound.
C18_AsStated ==
    (HeadingCall /\ smoothingFactor = 0 /\ RawInRange) => lastOrientation = call.coord

\* C18 amended: with smoothing factor 0 a heading update returns the raw heading
\* to within the rounding of previous + (raw - previous), less than two
\* spacings of the representable headings; it is the raw heading itself on the
\* first call and whenever the previous and the raw heading are whole degrees,
\* also across the 0/360 wraparound.
C18_NoSmoothing ==
    (HeadingCall /\ smoothingFactor = 0 /\ RawInRange) =>
        /\ HeadingDistance(lastOrientation, call.coord) < 2 * HeadingQuantum
        /\ PreviousHeading = Absent => lastOrientation = call.coord
        /\ (WholeDegrees(PreviousHeading) /\ WholeDegrees(call.coord)) =>
               lastOrientation = call.coord

\* from 350 to 10 degrees, across north
C18_Witness ==
    /\ HeadingCall
    /\ smoothingFactor = 0
    /\ PreviousHeading = Degrees(350)
    /\ call.coord = Degrees(10)
    /\ lastOrientation = Degrees(10)

\* the difference raw - previous as the code computes it, and the angles a
\* whole turn from it
DeltaCandidates ==
    LET d == Float(call.coord - PreviousHeading)
    IN  {d - Degrees(360), d, d + Degrees(360)}

\* the signed angular delta in (-180, 180]
DeltaHalfOpen ==
    CHOOSE x \in DeltaCandidates : -Degrees(180) < x /\ x <= Degrees(180)

\* the signed angular delta in [-180, 180], with the sign of raw - previous when
\* the two headings are opposite
DeltaClosed ==
    CHOOSE x \in DeltaCandidates :
        /\ -Degrees(180) <= x /\ x <= Degrees(180)
        /\ Abs(x) = Degrees(180) => x = Float(call.coord - PreviousHeading)

\* previous + delta * (1 - s) in exact arithmetic, reduced into [0, 360)
SmoothedFrom(delta) ==
    LET tenfold == PreviousHeading * SmoothingScale
                       + delta * (SmoothingScale - smoothingFactor)
    IN  ((tenfold + Degrees(360) * SmoothingScale) \div SmoothingScale) % Degrees(360)

\* the rounding error allowed to the three operations of the smoother
SmoothingTolerance == 4 * HeadingQuantum

\* C19 as stated: a heading update with a previous smoothed heading stores and
\* returns previous + delta * (1 - s) normalized into [0, 360), delta being the
\* signed angular delta remapped into (-180, 180].
C19_AsStated ==
    (HeadingCall /\ PreviousHeading # Absent /\ RawInRange) =>
        /\ HeadingDistance(lastOrientation, SmoothedFrom(DeltaHalfOpen))
               <= SmoothingTolerance
        /\ 0 <= lastOrientation /\ lastOrientation < Degrees(360)

\* C19 amended: as C19, with the delta in [-180, 180]: a raw heading exactly
\* opposite the previous one gives +180 when it is the larger of the two and
\* -180 when it is the smaller.
C19_Smoothing ==
    (HeadingCall /\ PreviousHeading # Absent /\ RawInRange) =>
        /\ HeadingDistance(lastOrientation, SmoothedFrom(DeltaClosed))
               <= SmoothingTolerance
        /\ 0 <= lastOrientation /\ lastOrientation < Degrees(360)

\* from 350 towards 10 degrees with s = 0.8: 20 degrees across north, of which
\* a fifth is taken
C19_Witness ==
    /\ HeadingCall
    /\ smoothingFactor = 8
    /\ PreviousHeading = Degrees(350)
    /\ call.coord = Degrees(10)
    /\ lastOrientation = Degrees(354)

\* C20: the first heading update with no previous smoothed heading, after
\* construction or after cleanup(), stores and returns the raw heading, for
\* every smoothing factor.
C20_FirstHeading ==
    (HeadingCall /\ PreviousHeading = Absent /\ RawInRange) =>
        lastOrientation = call.coord

\* the first update after cleanup(), with the smoothing factor at 1
C20_Witness ==
    /\ HeadingCall
    /\ PreviousHeading = Absent
    /\ headingUpdates > 1
    /\ smoothingFactor = SmoothingScale
    /\ call.coord = Degrees(90)
    /\ lastOrientation = Degrees(90)

----------------------------------------------------------------------------
(* MemoryManager: route simplification *)

\* MemoryManager.MAX_ROUTE_POINTS
MAX_ROUTE_POINTS == 1000

\* coordinates of a polyline are whole multiples of the tolerance handed to
\* douglasPeucker, 0.0001 degree
SIMPLIFY_TOLERANCE == 1

Point(latitude, longitude) == [ latitude |-> latitude, longitude |-> longitude ]

\* the denominator the distances to the line lineStart-lineEnd are kept over
LineScale(lineStart, lineEnd) ==
    LET C == lineEnd.latitude - lineStart.latitude
        D == lineEnd.longitude - lineStart.longitude
        lenSq == C * C + D * D
    IN  IF lenSq = 0 THEN 1 ELSE lenSq

\* pointToLineDistance(point, lineStart, lineEnd), squared and multiplied by
\* LineScale(lineStart, lineEnd): the code takes the square root of a quotient
\* by lenSq, which orders the distances to one line as these numerators do
pointToLineDistance(point, lineStart, lineEnd) ==
    LET A == point.latitude - lineStart.latitude
        B == point.longitude - lineStart.longitude
        C == lineEnd.latitude - lineStart.latitude
        D == lineEnd.longitude - lineStart.longitude
        dot == A * C + B * D
        lenSq == C * C + D * D
    IN  IF lenSq = 0 THEN A * A + B * B
        ELSE IF dot < 0 THEN (A * A + B * B) * lenSq
        ELSE IF dot > lenSq THEN ((A - C) * (A - C) + (B - D) * (B - D)) * lenSq
        ELSE (A * A + B * B) * lenSq - dot * dot

\* the loop of douglasPeucker over middle = points[1..]: the index in points
\* (from 1) of the first point at the largest distance from the line
\* first-last, or 0 when that distance is not above the tolerance
SplitIndex(points, tolerance) ==
    LET n  == Len(points)
        d  == [ i \in 2..n |-> pointToLineDistance(points[i], points[1], points[n]) ]
        ds == { d[i] : i \in 2..n }
        maxDistance == CHOOSE x \in ds : \A e \in ds : x >= e
    IN  IF maxDistance > tolerance * tolerance * LineScale(points[1], points[n])
        THEN CHOOSE i \in 2..n : d[i] = maxDistance /\ \A j \in 2..(i - 1) : d[j] # maxDistance
        ELSE 0

\* faulty variant: the last point is cut off the right part as it is off the
\* left one
RECURSIVE douglasPeucker_BothPartsCut(_, _)
douglasPeucker_BothPartsCut(points, tolerance) ==
    IF Len(points) <= 2 THEN points
    ELSE LET maxIndex == SplitIndex(points, tolerance)
             left  == douglasPeucker_BothPartsCut(SubSeq(points, 1, maxIndex), tolerance)
             right == douglasPeucker_BothPartsCut(
                          SubSeq(points, maxIndex, Len(points)), tolerance)
         IN  IF maxIndex > 0
             THEN SubSeq(left, 1, Len(left) - 1) \o SubSeq(right, 1, Len(right) - 1)
             ELSE << points[1], points[Len(points)] >>

\* faulty variant: the left part keeps its last point, the split point, which
\* the right part starts with
RECURSIVE douglasPeucker_SplitKeptTwice(_, _)
douglasPeucker_SplitKeptTwice(points, tolerance) ==
    IF Len(points) <= 2 THEN points
    ELSE LET maxIndex == SplitIndex(points, tolerance)
             left  == douglasPeucker_SplitKeptTwice(SubSeq(points, 1, maxIndex), tolerance)
             right == douglasPeucker_SplitKeptTwice(
                          SubSeq(points, maxIndex, Len(points)), tolerance)
         IN  IF maxIndex > 0
             THEN left \o right
             ELSE << points[1], points[Len(points)] >>

\* douglasPeucker(points, tolerance)
RECURSIVE douglasPeucker(_, _)
douglasPeucker(points, tolerance) ==
    IF Len(points) <= 2 THEN points
    ELSE LET maxIndex == SplitIndex(points, tolerance)
             left  == douglasPeucker(SubSeq(points, 1, maxIndex), tolerance)
             right == douglasPeucker(SubSeq(points, maxIndex, Len(points)), tolerance)
         IN  IF maxIndex > 0
             THEN SubSeq(left, 1, Len(left) - 1) \o right
             ELSE << points[1], points[Len(points)] >>

\* simplifyRoute(coordinates)
simplifyRoute(coordinates) ==
    IF Len(coordinates) <= MAX_ROUTE_POINTS THEN coordinates
    ELSE douglasPeucker(coordinates, SIMPLIFY_TOLERANCE)

SimplifyRoute(coordinates) ==
    /\ simplified' = [ coordinates |-> coordinates,
                       result |-> simplifyRoute(coordinates) ]
    /\ Observe("simplifyRoute", Absent, Absent, TRUE)
    /\ UNCHANGED << now, ticks, throttleVars, componentVars, orientationVars,
                    devicePowerSaving, adaptiveIntervals, routing, routeRequest, normalized,
                    handles, watchId, geolocation,
                    streamVars, currentRoute >>

\* the points short polylines are drawn from
GridPoints == { Point(x, y) : x \in 0..2, y \in 0..1 }

ShortRoutes ==
    {<< >>} \cup { << p >> : p \in GridPoints }
        \cup { << p, q >> : p, q \in GridPoints }
        \cup { << p, q, r >> : p, q, r \in GridPoints }

\* polylines of more than MAX_ROUTE_POINTS points: a run northwards, a hundred
\* points to the unit, with the points at the indices in spikes set off to the
\* east by offset
LongRoute(length, spikes, offset) ==
    [ i \in 1..length |->
        Point(i \div 100, IF i \in spikes THEN offset ELSE 0) ]

LongRoutes ==
    { LongRoute(MAX_ROUTE_POINTS + 1, spikes, offset) :
        spikes \in { {}, {1}, {500}, {MAX_ROUTE_POINTS + 1}, {200, 700}, {1, 500, 1001},
                     {300, 301}, 400..600 },
        offset \in {1, 3} }
        \cup { LongRoute(MAX_ROUTE_POINTS + 2, {2, 1001}, 3) }

NextSimplify ==
    \E coordinates \in ShortRoutes \cup LongRoutes : SimplifyRoute(coordinates)

SpecSimplify == Init /\ [][NextSimplify]_vars

\* C21: for every input polyline simplifyRoute returns a polyline whose first
\* point is the input's first point and whose last point is the input's last
\* point, and that has no more points than the input.
C21_Simplify ==
    call.op = "simplifyRoute" =>
        LET input  == simplified.coordinates
            output == simplified.result
        IN  /\ Len(output) <= Len(input)
            /\ Len(input) > 0 =>
                   /\ Len(output) > 0
                   /\ output[1] = input[1]
                   /\ output[Len(output)] = input[Len(input)]

\* a polyline of more than MAX_ROUTE_POINTS points comes back with some of its
\* inner points kept and the others dropped
C21_Witness ==
    /\ call.op = "simplifyRoute"
    /\ Len(simplified.coordinates) > MAX_ROUTE_POINTS
    /\ Len(simplified.result) > 2
    /\ Len(simplified.result) < Len(simplified.coordinates)
    /\ simplified.result[1] = simplified.coordinates[1]

----------------------------------------------------------------------------
(* handleStartNavigation with a routing provider that answers later, fails, or
   answers with a route that is not well formed; RoutingService.currentRoute *)

\* what a provider answers with when the leg has no steps and the polyline is
\* empty (parseGoogleResponse of such a response)
EmptyGeometryRoute ==
    [ distance |-> 0, duration |-> 0, steps |-> << >>, coordinates |-> << >> ]

\* a route whose only leg has a negative distance
NegativeLegRoute(origin, destination) ==
    [ distance    |-> -calculateDistance(origin, destination),
      duration    |-> 60,
      steps       |-> << [ instruction |-> << "Head north on current road" >>,
                           distance    |-> -calculateDistance(origin, destination),
                           duration    |-> 60,
                           coordinates |-> << origin, destination >> ] >>,
      coordinates |-> << origin, destination >> ]

\* the routes a provider may answer with
ProviderRoutes(origin, destination) ==
    { getMockRoute(origin, destination), EmptyGeometryRoute,
      NegativeLegRoute(origin, destination) }

\* faulty variant: the navigation state is written before the route is there
handleStartNavigationRejected_Optimistic(nav) == [nav EXCEPT !.isNavigating = TRUE]

\* lines 251-254, the catch block of handleStartNavigation: console.error and
\* Alert.alert; the navigation state after it
handleStartNavigationRejected(nav) == nav

\* handleStartNavigation up to its await: routingService.getRoute(...) is
\* called and has not answered; one fetch is awaited at a time
RequestRoute(slot) ==
    /\ rendered.userLocation # Absent
    /\ ~routeRequest.pending
    /\ routeRequest' = [pending |-> TRUE, slot |-> slot]
    /\ Observe("handleStartNavigation:await", slot, Absent, TRUE)
    /\ UNCHANGED << now, ticks, throttleVars, componentVars, orientationVars,
                    devicePowerSaving, adaptiveIntervals, routing, simplified, normalized,
                    handles, watchId, geolocation,
                    streamVars, currentRoute >>

\* getRoute throws 'Failed to fetch route': the catch block runs, the alert
\* 'Navigation Error' is shown and the handler returns (ret = FALSE)
RouteFetchFails ==
    /\ routeRequest.pending
    /\ routeRequest' = NoRequest
    /\ navigationState' = handleStartNavigationRejected(navigationState)
    /\ Observe("handleStartNavigation", routeRequest.slot, Absent, FALSE)
    /\ UNCHANGED << now, ticks, throttleVars, userLocation, orientation, cameraState,
                    userIdleTimeoutRef, pendingTimeouts, locationListening, rendered,
                    throttleLastCallTime, depsChanged, poseRequest,
                    lastInteractionEvent, navigatingSince, orientationVars,
                    devicePowerSaving, adaptiveIntervals, routing, simplified, normalized,
                    handles, watchId, geolocation,
                    streamVars, currentRoute >>

\* getRoute answers with route: lines 222-249
RouteFetchReturns(route) ==
    /\ routeRequest.pending
    /\ routeRequest' = NoRequest
    /\ navigationState' =
         [ isNavigating        |-> TRUE,
           currentRoute        |-> route,
           currentStepIndex    |-> 0,
           remainingDistance   |-> route.distance,
           nextTurnInstruction |-> IF route.steps = << >> THEN << >>
                                   ELSE route.steps[1].instruction,
           nextTurnDistance    |-> IF route.steps = << >> THEN Absent
                                   ELSE route.steps[1].distance ]
    /\ poseRequest' = FitToCoordinates
    /\ navigatingSince' = IF navigationState.isNavigating THEN navigatingSince ELSE now
    /\ Observe("handleStartNavigation", routeRequest.slot, Absent, TRUE)
    /\ UNCHANGED << now, ticks, throttleVars, userLocation, orientation, cameraState,
                    userIdleTimeoutRef, pendingTimeouts, locationListening, rendered,
                    throttleLastCallTime, depsChanged, lastInteractionEvent,
                    orientationVars, devicePowerSaving, adaptiveIntervals, routing,
                    simplified, normalized, handles, watchId, geolocation, streamVars, currentRoute >>

\* setCurrentRoute(route)
setCurrentRoute(previous, route) == route

SetCurrentRoute(route) ==
    /\ currentRoute' = setCurrentRoute(currentRoute, route)
    /\ Observe("setCurrentRoute", Absent, Absent, TRUE)
    /\ UNCHANGED << now, ticks, throttleVars, componentVars, otherServiceVars >>

\* clearRoute()
ClearRoute ==
    /\ currentRoute' = << >>
    /\ Observe("clearRoute", Absent, Absent, TRUE)
    /\ UNCHANGED << now, ticks, throttleVars, componentVars, otherServiceVars >>

\* every answer of the provider to a request from an initial position to a slot
ProvidedRoutes ==
    UNION { ProviderRoutes(origin, slot) : origin \in InitialPositions, slot \in ParkingSlots }

\* the component around handleStartNavigation with such a provider, and the
\* callers of setCurrentRoute and clearRoute
NextProvider ==
    \/ Render
    \/ \E c \in InitialPositions : InitializeLocation(c)
    \/ \E type \in InteractionTypes : HandleUserMapInteraction(type)
    \/ \E slot \in ParkingSlots : StartNavigationWithoutLocation(slot)
    \/ EndNavigation
    \/ \E slot \in ParkingSlots : RequestRoute(slot)
    \/ RouteFetchFails
    \/ \E route \in ProvidedRoutes : RouteFetchReturns(route)
    \/ \E route \in ProvidedRoutes : SetCurrentRoute(route)
    \/ ClearRoute

SpecProvider == Init /\ [][NextProvider]_vars

\* the step is an attempt to start navigation that fails, or its first half
FailedStartStep ==
    \/ call'.op = "handleStartNavigation" /\ ~call'.ret
    \/ call'.op = "handleStartNavigation:await"

\* C22: a startNavigation attempt that fails, for want of a current position
\* or because the route provider fails, creates no partial state: navigation
\* state (active flag, route, progress), camera state, camera request and
\* RoutingService's current route are after it what they were before it, and
\* the handler returns after its alert instead of throwing.
C22_FailedStart ==
    [][ FailedStartStep =>
          /\ navigationState' = navigationState
          /\ cameraState' = cameraState
          /\ poseRequest' = poseRequest
          /\ userIdleTimeoutRef' = userIdleTimeoutRef
          /\ currentRoute' = currentRoute
          /\ call'.op = "handleStartNavigation" => ~call'.ret ]_vars

\* the provider failed while no navigation was active and the user had moved
\* the camera
C22_Witness ==
    /\ call.op = "handleStartNavigation"
    /\ ~call.ret
    /\ rendered.userLocation # Absent
    /\ ~navigationState.isNavigating
    /\ cameraState.isUserControlled
    /\ ~routeRequest.pending

\* the route violates a structural invariant: no geometry, or a leg of
\* negative distance
MalformedRoute(route) ==
    /\ route # << >>
    /\ \/ route.coordinates = << >>
       \/ \E i \in 1..Len(route.steps) : route.steps[i].distance < 0

\* C23 as stated: a route that violates a structural invariant on ingest is
\* rejected and never becomes the current route, neither of RoutingService nor
\* of the navigation state.
C23_AsStated ==
    /\ ~MalformedRoute(currentRoute)
    /\ ~MalformedRoute(navigationState.currentRoute)

----------------------------------------------------------------------------
(* LocationService and OrientationService: listeners and their notification *)

\* the callbacks handed to addLocationListener and addOrientationListener
Listeners == {"map", "logger"}

\* addLocationListener(callback)
AddLocationListener(callback) ==
    /\ locationCallbacks' = AddCallback(locationCallbacks, callback)
    /\ Observe("addLocationListener", Absent, Absent, TRUE)
    /\ UNCHANGED << now, ticks, throttleVars, componentVars, orientationVars,
                    devicePowerSaving, adaptiveIntervals, routing, utilityVars,
                    orientationCallbacks, notified, lastKnownLocation, currentRoute >>

\* the function addLocationListener(callback) returned
RemoveLocationListener(callback) ==
    /\ locationCallbacks' = DeleteCallback(locationCallbacks, callback)
    /\ Observe("removeLocationListener", Absent, Absent, TRUE)
    /\ UNCHANGED << now, ticks, throttleVars, componentVars, orientationVars,
                    devicePowerSaving, adaptiveIntervals, routing, utilityVars,
                    orientationCallbacks, notified, lastKnownLocation, currentRoute >>

\* addOrientationListener(callback)
AddOrientationListener(callback) ==
    /\ orientationCallbacks' = AddCallback(orientationCallbacks, callback)
    /\ Observe("addOrientationListener", Absent, Absent, TRUE)
    /\ UNCHANGED << now, ticks, throttleVars, componentVars, orientationVars,
                    devicePowerSaving, adaptiveIntervals, routing, utilityVars,
                    locationCallbacks, notified, lastKnownLocation, currentRoute >>

\* the function addOrientationListener(callback) returned
RemoveOrientationListener(callback) ==
    /\ orientationCallbacks' = DeleteCallback(orientationCallbacks, callback)
    /\ Observe("removeOrientationListener", Absent, Absent, TRUE)
    /\ UNCHANGED << now, ticks, throttleVars, componentVars, orientationVars,
                    devicePowerSaving, adaptiveIntervals, routing, utilityVars,
                    locationCallbacks, notified, lastKnownLocation, currentRoute >>

\* faulty variant: no try around the call, the first exception ends the forEach
\* and leaves the function
RECURSIVE notifyLocationCallbacks_NoCatch(_, _)
notifyLocationCallbacks_NoCatch(callbacks, throwing) ==
    IF callbacks = << >> THEN [delivered |-> << >>, escaped |-> FALSE]
    ELSE IF Head(callbacks) \in throwing
    THEN [delivered |-> << Head(callbacks) >>, escaped |-> TRUE]
    ELSE LET rest == notifyLocationCallbacks_NoCatch(Tail(callbacks), throwing)
         IN  [ delivered |-> << Head(callbacks) >> \o rest.delivered,
               escaped   |-> rest.escaped ]

\* notifyLocationCallbacks(location): the callbacks called, in order, and
\* whether an exception leaves the function
RECURSIVE notifyLocationCallbacks(_, _)
notifyLocationCallbacks(callbacks, throwing) ==
    IF callbacks = << >> THEN [delivered |-> << >>, escaped |-> FALSE]
    ELSE LET rest == notifyLocationCallbacks(Tail(callbacks), throwing)
         IN  [ delivered |-> << Head(callbacks) >> \o rest.delivered,
               escaped   |-> rest.escaped ]

\* the success callback of Geolocation.watchPosition for a position at
\* coordinates, the listeners in throwing throwing when they are called
WatchPosition(coordinates, throwing) ==
    /\ lastKnownLocation' = coordinates
    /\ notified' = Notification("location", locationCallbacks, throwing,
                                notifyLocationCallbacks(locationCallbacks, throwing))
    /\ Observe("watchPosition", coordinates, Absent, TRUE)
    /\ UNCHANGED << now, ticks, throttleVars, componentVars, orientationVars,
                    devicePowerSaving, adaptiveIntervals, routing, utilityVars,
                    locationCallbacks, orientationCallbacks, currentRoute >>

\* stopWatchingLocation(): if (this.watchId !== null) { Geolocation.clearWatch(
\* this.watchId); this.watchId = null }, on the service's watchId and the
\* platform's state
stopWatchingLocation(id, platform) ==
    IF id # Absent
    THEN [ watchId |-> Absent,
           geolocation |-> [platform EXCEPT !.subscriptions = @ \ {id}] ]
    ELSE [ watchId |-> id, geolocation |-> platform ]

\* Geolocation.watchPosition(...): a new watch under the next id
watchPosition(platform) ==
    [ subscriptions |-> platform.subscriptions \cup {platform.nextWatchId},
      nextWatchId   |-> platform.nextWatchId + 1 ]

\* faulty variant: the existing watch is not cleared first
startWatchingLocation_NoClear(id, platform) ==
    [ watchId |-> platform.nextWatchId, geolocation |-> watchPosition(platform) ]

\* startWatchingLocation(): stopWatchingLocation() if a watch is active, then
\* this.watchId = Geolocation.watchPosition(...)
startWatchingLocation(id, platform) ==
    LET stopped == stopWatchingLocation(id, platform)
    IN  [ watchId     |-> stopped.geolocation.nextWatchId,
          geolocation |-> watchPosition(stopped.geolocation) ]

\* LocationService.cleanup(): stopWatchingLocation() and the registries cleared
LocationCleanup ==
    /\ watchId' = stopWatchingLocation(watchId, geolocation).watchId
    /\ geolocation' = stopWatchingLocation(watchId, geolocation).geolocation
    /\ locationCallbacks' = << >>
    /\ Observe("locationCleanup", Absent, Absent, TRUE)
    /\ UNCHANGED << now, ticks, throttleVars, componentVars, orientationVars,
                    devicePowerSaving, adaptiveIntervals, routing, simplified,
                    routeRequest, normalized, handles,
                    orientationCallbacks, notified, lastKnownLocation, currentRoute >>

StreamHeadings == { Degrees(90) }

StreamPositions == {720}

NextStreams ==
    \/ \E callback \in Listeners : AddLocationListener(callback)
    \/ \E callback \in Listeners : RemoveLocationListener(callback)
    \/ \E callback \in Listeners : AddOrientationListener(callback)
    \/ \E callback \in Listeners : RemoveOrientationListener(callback)
    \/ \E coordinates \in StreamPositions, throwing \in SUBSET Listeners :
           WatchPosition(coordinates, throwing)
    \/ \E raw \in StreamHeadings, throwing \in SUBSET Listeners :
           HandleOrientationChange(raw, throwing)
    \/ LocationCleanup
    \/ Cleanup

SpecStreams == Init /\ [][NextStreams]_vars

\* the registry of the stream the last notification was on
NotifiedRegistry ==
    IF notified.stream = "location" THEN locationCallbacks ELSE orientationCallbacks

NotifyCall == call.op \in {"watchPosition", "handleOrientationChange"}

\* C24: when a registered position or heading listener throws while it is
\* notified of a sample, the exception does not leave the notification, every
\* registered listener is notified of that sample, once, and the registry is
\* what it was, so that the listener that threw is notified of the next sample
\* as well.
C24_FaultyListener ==
    NotifyCall =>
        /\ ~notified.escaped
        /\ notified.delivered = notified.callbacks
        /\ NotifiedRegistry = notified.callbacks
        /\ notified.throwing \subseteq Registered(NotifiedRegistry)

\* the first of two listeners throws, as it did on the sample before, and the
\* one after it is notified
C24_Witness ==
    /\ NotifyCall
    /\ Len(notified.callbacks) = 2
    /\ notified.callbacks[1] \in notified.throwing
    /\ notified.callbacks[1] \in notified.threwBefore
    /\ notified.callbacks[2] \notin notified.throwing
    /\ notified.delivered = notified.callbacks

----------------------------------------------------------------------------
(* Claims about the streams after the end of navigation *)

\* navigation was started and has been ended since
NavigationEnded == navigatingSince > 0 /\ ~navigationState.isNavigating

\* C25 as stated: after handleEndNavigation the component's listener is
\* unregistered from the position stream, and no position sample emitted after
\* it reaches the listener until navigation is started again.
C25_AsStated ==
    /\ (call.op = "handleEndNavigation" /\ NavigationEnded) => ~locationListening
    /\ ~(call.op = "onLocationSample" /\ NavigationEnded)

----------------------------------------------------------------------------
(* Claims about the stationary classification *)

LocationGateCall == call.op = "shouldUpdateLocation"

\* C26 as stated: a position sample with speed at or above the stationary
\* threshold clears the stationary classification and its start time at once,
\* whether or not the sample passes the time gate; a sample with a lower speed,
\* or none, sets the start time only when the agent was not stationary before.
C26_AsStated ==
    LocationGateCall =>
        /\ SpeedOrZero(call.speed) >= STATIONARY_SPEED_THRESHOLD =>
               ~isStationary /\ stationaryStartTime = 0
        /\ ( /\ SpeedOrZero(call.speed) < STATIONARY_SPEED_THRESHOLD
             /\ stationaryStartTime # call.pre.throttle.stationaryStartTime ) =>
               ~call.pre.throttle.isStationary /\ stationaryStartTime = now

----------------------------------------------------------------------------
(* Claims about the remaining time *)

\* C27 as stated: for every route accepted on ingest, a current leg of distance
\* 0 included, the remainingTime of calculateProgress is finite and
\* non-negative: (distance to the end of the current leg / distance of the
\* leg) * duration of the leg + the durations of the later legs.
C27_AsStated ==
    (ProgressCall /\ ~MalformedRoute(routing.route)) =>
        /\ routing.remainingTime.kind = "finite"
        /\ routing.remainingTime.num >= 0
        /\ routing.remainingTime.den > 0

----------------------------------------------------------------------------
(* Claims about the rate of change of the smoothed heading *)

\* the raw heading of the call observed as the smoother receives it
NormalizedRaw == normalizeHeading(call.coord)

\* a heading update that smooths: there is a previous heading, and the factor
\* is in [0, 1]
SmoothingCall ==
    /\ HeadingCall
    /\ PreviousHeading # Absent
    /\ 0 <= smoothingFactor /\ smoothingFactor <= SmoothingScale

\* the angle the update has moved the smoothed heading by
HeadingMove == HeadingDistance(lastOrientation, PreviousHeading)

\* C28 as stated: for a smoothing factor s in [0, 1] one update moves the
\* smoothed heading toward the raw heading, along the shorter arc, by at most
\* (1 - s) * 180 degrees whatever the raw input; with s = 1 the smoothed heading
\* never changes after the first sample.
C28_AsStated ==
    SmoothingCall =>
        /\ HeadingMove * SmoothingScale
               <= (SmoothingScale - smoothingFactor) * Degrees(180)
        /\ HeadingDistance(lastOrientation, NormalizedRaw)
               <= HeadingDistance(PreviousHeading, NormalizedRaw)
        /\ smoothingFactor = SmoothingScale => lastOrientation = PreviousHeading

\* C28 amended: for a smoothing factor s in [0, 1] one update moves the smoothed
\* heading toward the raw heading, along the shorter arc, by at most
\* (1 - s) * 180 degrees and the rounding of the three floating point
\* operations of the smoother; with s = 1 the smoothed heading is exactly the
\* previous one, for every raw heading.
C28_BoundedMove ==
    SmoothingCall =>
        /\ HeadingMove * SmoothingScale
               <= (SmoothingScale - smoothingFactor) * Degrees(180)
                      + SmoothingScale * SmoothingTolerance
        /\ HeadingDistance(lastOrientation, NormalizedRaw)
               <= HeadingDistance(PreviousHeading, NormalizedRaw) + SmoothingTolerance
        /\ smoothingFactor = SmoothingScale => lastOrientation = PreviousHeading

\* the largest jump, from north to south with s = 0.5: the heading moves by 90
\* degrees, the bound itself
C28_Witness ==
    /\ SmoothingCall
    /\ smoothingFactor = 5
    /\ PreviousHeading = 0
    /\ call.coord = Degrees(180)
    /\ lastOrientation = Degrees(90)

----------------------------------------------------------------------------
(* Claims about the smoothing factor *)

\* the arguments of setSmoothingFactor: the factors from -15.0 to 15.0 in
\* tenths, and NaN
MaxFactorArgument == 150

FactorArguments == (-MaxFactorArgument..MaxFactorArgument) \cup {NotANumber}

NextSmoothingFactor == \E factor \in FactorArguments : SetSmoothingFactor(factor)

SpecSmoothingFactor == Init /\ [][NextSmoothingFactor]_vars

FactorCall == call.op = "setSmoothingFactor"

\* C29 as stated: setSmoothingFactor stores its argument clamped into [0, 1]:
\* 0 for an argument below 0, 1 for one above 1, the argument itself inside the
\* range; after any sequence of calls the smoothing factor is in [0, 1].
C29_AsStated ==
    /\ 0 <= smoothingFactor /\ smoothingFactor <= SmoothingScale
    /\ (FactorCall /\ call.coord # NotANumber) =>
           /\ call.coord < 0 => smoothingFactor = 0
           /\ call.coord > SmoothingScale => smoothingFactor = SmoothingScale
           /\ (0 <= call.coord /\ call.coord <= SmoothingScale) =>
                  smoothingFactor = call.coord

----------------------------------------------------------------------------
(* OrientationService and LocationService: headings and bearings in [0, 360) *)

\* whether the two loops of normalizeHeading(heading) come to an end: a step
\* heading += 360 or heading -= 360 whose rounded result is heading again
\* repeats for ever
RECURSIVE normalizeHeadingReturns(_)
normalizeHeadingReturns(heading) ==
    IF heading < 0
    THEN /\ Float(heading + Degrees(360)) # heading
         /\ normalizeHeadingReturns(Float(heading + Degrees(360)))
    ELSE IF heading >= Degrees(360)
    THEN /\ Float(heading - Degrees(360)) # heading
         /\ normalizeHeadingReturns(Float(heading - Degrees(360)))
    ELSE TRUE

\* a call normalizeHeading(heading), as handleOrientationChange makes it for the
\* heading of a sensor event; a call that does not return leaves heading where
\* the loop has stopped moving
NormalizeHeading(heading) ==
    /\ normalized' = [ op |-> "normalizeHeading", argument |-> heading,
                       returns |-> normalizeHeadingReturns(heading),
                       result |-> IF normalizeHeadingReturns(heading)
                                  THEN normalizeHeading(heading)
                                  ELSE heading ]
    /\ Observe("normalizeHeading", heading, Absent, TRUE)
    /\ UNCHANGED << now, ticks, throttleVars, componentVars, orientationVars,
                    devicePowerSaving, adaptiveIntervals, routing, simplified,
                    routeRequest, handles, watchId, geolocation, streamVars, currentRoute >>

\* calculateGPSBearing(from, to), bearing being Math.atan2(y, x) * 180 / Math.PI
\* for the two points
calculateGPSBearing(bearing) == normalizeHeading(bearing)

\* LocationService.calculateBearing(coord1, coord2), bearing being
\* Math.atan2(y, x) * 180 / Math.PI for the two points: (bearing + 360) % 360,
\* the remainder being exact
calculateBearing(bearing) == Float(bearing + Degrees(360)) % Degrees(360)

CalculateGPSBearing(bearing) ==
    /\ normalized' = [ op |-> "calculateGPSBearing", argument |-> bearing,
                       returns |-> TRUE, result |-> calculateGPSBearing(bearing) ]
    /\ Observe("calculateGPSBearing", bearing, Absent, TRUE)
    /\ UNCHANGED << now, ticks, throttleVars, componentVars, orientationVars,
                    devicePowerSaving, adaptiveIntervals, routing, simplified,
                    routeRequest, handles, watchId, geolocation, streamVars, currentRoute >>

CalculateBearing(bearing) ==
    /\ normalized' = [ op |-> "calculateBearing", argument |-> bearing,
                       returns |-> TRUE, result |-> calculateBearing(bearing) ]
    /\ Observe("calculateBearing", bearing, Absent, TRUE)
    /\ UNCHANGED << now, ticks, throttleVars, componentVars, orientationVars,
                    devicePowerSaving, adaptiveIntervals, routing, simplified,
                    routeRequest, handles, watchId, geolocation, streamVars, currentRoute >>

\* updateWithGPSBearing(from, to): the bearing is smoothed like a sensor heading
\* and handed to the callbacks
UpdateWithGPSBearing(bearing) ==
    /\ headingUpdates < MaxHeadingUpdates
    /\ headingUpdates' = headingUpdates + 1
    /\ lastOrientation' =
           IF lastOrientation # Absent
           THEN applySmoothingToHeading(lastOrientation, calculateGPSBearing(bearing),
                                        smoothingFactor)
           ELSE calculateGPSBearing(bearing)
    /\ notified' = Notification("orientation", orientationCallbacks, {},
                                notifyOrientationCallbacks(orientationCallbacks, {}))
    /\ UNCHANGED << smoothingFactor, locationCallbacks, orientationCallbacks,
                    lastKnownLocation >>
    /\ Observe("updateWithGPSBearing", bearing, Absent, TRUE)
    /\ UNCHANGED << now, ticks, throttleVars, componentVars, devicePowerSaving,
                    adaptiveIntervals, routing, utilityVars, currentRoute >>

\* the results of Math.atan2(y, x) * 180 / Math.PI, all within [-180, 180]: the
\* eight compass directions, and the bearings nearest to north on its west side
AtanDegrees ==
    { Degrees(d) : d \in {-180, -135, -90, -45, 0, 45, 90, 135, 180} } \cup {-1, -2}

\* a finite heading so large that the headings next to it are more than 720
\* degrees away
HugeHeading == Degrees(3145728)

\* the arguments of normalizeHeading: headings inside [0, 360), at its ends, one
\* to three turns outside it on either side, just below 0, and huge ones
NormalizeArguments ==
    { Degrees(d) : d \in {-1080, -725, -360, -10, 0, 90, 359, 360, 725, 1080} }
        \cup {-1, Degrees(360) - 64, HugeHeading, -HugeHeading}

\* the bearings and the sensor headings that reach the smoother: west and just
\* west of north, 350 degrees and 10 degrees below north
FallbackBearings == {Degrees(-90), -1}

SensorHeadings == {Degrees(350), Degrees(-10)}

NextHeadingRange ==
    \/ \E heading \in NormalizeArguments : NormalizeHeading(heading)
    \/ \E bearing \in AtanDegrees : CalculateGPSBearing(bearing)
    \/ \E bearing \in AtanDegrees : CalculateBearing(bearing)
    \/ \E bearing \in FallbackBearings : UpdateWithGPSBearing(bearing)
    \/ \E raw \in SensorHeadings : HandleOrientationChange(raw, {})

SpecHeadingRange == Init /\ [][NextHeadingRange]_vars

----------------------------------------------------------------------------
(* Claims about the range of headings and bearings *)

InHeadingRange(heading) == 0 <= heading /\ heading < Degrees(360)

\* C30 as stated: normalizeHeading maps every finite input, negative or
\* several turns above 360 included, to a value in [0, 360) congruent to the
\* input modulo 360, and is idempotent; every heading the smoother stores and
\* every bearing returned lies in [0, 360).
C30_AsStated ==
    /\ normalized.op = "normalizeHeading" =>
           /\ normalized.returns
           /\ InHeadingRange(normalized.result)
           /\ (normalized.result - normalized.argument) % Degrees(360) = 0
           /\ normalizeHeading(normalized.result) = normalized.result
    /\ normalized.op \in {"calculateGPSBearing", "calculateBearing"} =>
           InHeadingRange(normalized.result)
    /\ lastOrientation # Absent => InHeadingRange(lastOrientation)

----------------------------------------------------------------------------
(* Claims about the camera while the user controls it *)

\* what the map shows: the camera request in effect, and the zoom, bearing and
\* pitch of the camera state
CameraView == << poseRequest, cameraState.zoom, cameraState.bearing, cameraState.pitch >>

\* the steps C31 allows to move the camera
CameraMovers == {"handleUserMapInteraction", "idleTimeout", "handleEndNavigation"}

\* C31 as stated: while the camera is UserControlled a position or heading
\* sample issues no camera request and leaves center, zoom, bearing and pitch
\* unchanged; only a user interaction, the idle timer firing and endNavigation
\* change them.
C31_AsStated ==
    [][ (cameraState.isUserControlled /\ call'.op \notin CameraMovers)
            => CameraView' = CameraView ]_vars

----------------------------------------------------------------------------
(* LocationService and OrientationService: the functions the add...Listener *)
(* calls return                                                             *)

\* add...Listener calls in one behaviour
MaxSubscriptions == 3

\* the registry of a stream
Registry(stream) ==
    IF stream = "location" THEN locationCallbacks ELSE orientationCallbacks

\* addLocationListener(callback) and addOrientationListener(callback): the
\* callback is added to the Set of the stream, and the function returned, which
\* holds the callback, is kept by the caller
Subscribe(stream, callback) ==
    /\ Len(handles) < MaxSubscriptions
    /\ handles' = Append(handles, [ stream |-> stream, callback |-> callback,
                                    invoked |-> FALSE ])
    /\ IF stream = "location"
       THEN /\ locationCallbacks' = AddCallback(locationCallbacks, callback)
            /\ UNCHANGED orientationCallbacks
       ELSE /\ orientationCallbacks' = AddCallback(orientationCallbacks, callback)
            /\ UNCHANGED locationCallbacks
    /\ Observe("subscribe", Absent, Absent, TRUE)
    /\ UNCHANGED << now, ticks, throttleVars, componentVars, orientationVars,
                    devicePowerSaving, adaptiveIntervals, routing, simplified,
                    routeRequest, normalized, watchId, geolocation, notified,
                    lastKnownLocation, currentRoute >>

\* a call of the i-th function returned: this.locationCallbacks.delete(callback)
\* or this.orientationCallbacks.delete(callback)
Unsubscribe(i) ==
    /\ i \in 1..Len(handles)
    /\ handles' = [handles EXCEPT ![i].invoked = TRUE]
    /\ IF handles[i].stream = "location"
       THEN /\ locationCallbacks' = DeleteCallback(locationCallbacks, handles[i].callback)
            /\ UNCHANGED orientationCallbacks
       ELSE /\ orientationCallbacks' =
                   DeleteCallback(orientationCallbacks, handles[i].callback)
            /\ UNCHANGED locationCallbacks
    /\ Observe("unsubscribe", i, Absent, TRUE)
    /\ UNCHANGED << now, ticks, throttleVars, componentVars, orientationVars,
                    devicePowerSaving, adaptiveIntervals, routing, simplified,
                    routeRequest, normalized, watchId, geolocation, notified,
                    lastKnownLocation, currentRoute >>

Streams == {"location", "orientation"}

NextSubscriptions ==
    \/ \E stream \in Streams, callback \in Listeners : Subscribe(stream, callback)
    \/ \E i \in 1..MaxSubscriptions : Unsubscribe(i)
    \/ \E coordinates \in StreamPositions : WatchPosition(coordinates, {})
    \/ \E raw \in StreamHeadings : HandleOrientationChange(raw, {})

SpecSubscriptions == Init /\ [][NextSubscriptions]_vars

----------------------------------------------------------------------------
(* Claims about subscriptions *)

\* the number of times callback is in a sequence of callbacks
Occurrences(callbacks, callback) ==
    Cardinality({ k \in 1..Len(callbacks) : callbacks[k] = callback })

\* the functions returned for callback on stream that have not been called
LiveHandles(stream, callback) ==
    { i \in 1..Len(handles) : /\ handles[i].stream = stream
                              /\ handles[i].callback = callback
                              /\ ~handles[i].invoked }

\* C32 as stated: every add...Listener call creates a registration of its own,
\* which only the function it returned removes: a callback is registered on a
\* stream, and notified of a sample, once for every function returned for it
\* that has not been called, also when the same callback was added twice, and
\* calling a function a second time changes nothing.
C32_AsStated ==
    /\ \A stream \in Streams, callback \in Listeners :
           Occurrences(Registry(stream), callback)
               = Cardinality(LiveHandles(stream, callback))
    /\ \A callback \in Listeners :
           NotifyCall =>
               Occurrences(notified.delivered, callback)
                   = Cardinality(LiveHandles(notified.stream, callback))

----------------------------------------------------------------------------
(* From the sensor to the component: OrientationService, then the listener of *)
(* initializeOrientation                                                      *)

\* the callback initializeOrientation hands to addOrientationListener
MapListener == "map"

\* initializeOrientation(): the listener is registered
InitializeOrientation ==
    /\ orientationCallbacks' = AddCallback(orientationCallbacks, MapListener)
    /\ Observe("initializeOrientation", Absent, Absent, TRUE)
    /\ UNCHANGED << now, ticks, throttleVars, componentVars, orientationVars,
                    devicePowerSaving, adaptiveIntervals, routing, utilityVars,
                    locationCallbacks, notified, lastKnownLocation, currentRoute >>

\* A sensor event with heading raw.  handleOrientationChange normalizes and
\* smooths it, stores the result and notifies the listeners; the listener of
\* the component then asks shouldUpdateOrientation() and keeps the smoothed
\* heading when the answer is yes.  ret is the answer of the throttler.
OrientationEvent(raw) ==
    /\ headingUpdates < MaxHeadingUpdates
    /\ headingUpdates' = headingUpdates + 1
    /\ lastOrientation' = handleOrientationChange(lastOrientation, raw, smoothingFactor)
    /\ notified' = Notification("orientation", orientationCallbacks, {},
                                notifyOrientationCallbacks(orientationCallbacks, {}))
    /\ LET listening == MapListener \in Registered(orientationCallbacks)
           r == shouldUpdateOrientation(ThrottleState, now)
       IN  /\ SetThrottle(IF listening THEN r.st ELSE ThrottleState)
           /\ orientation' = IF listening /\ r.ret THEN lastOrientation' ELSE orientation
           /\ Observe("orientationEvent", raw, Absent, listening /\ r.ret)
    /\ UNCHANGED << now, ticks, userLocation, navigationState, cameraState,
                    userIdleTimeoutRef, pendingTimeouts, locationListening, rendered,
                    throttleLastCallTime, depsChanged, poseRequest,
                    lastInteractionEvent, navigatingSince, smoothingFactor,
                    devicePowerSaving, adaptiveIntervals, routing, utilityVars,
                    locationCallbacks, orientationCallbacks, lastKnownLocation,
                    currentRoute >>

\* sensor headings, a quarter turn apart
EventHeadings == { Degrees(d) : d \in {0, 90, 180} }

\* clock steps inside ORIENTATION_UPDATE_INTERVAL, and the interval itself
HeadingFlowSteps == {10, 100}

NextHeadingFlow ==
    \/ \E d \in HeadingFlowSteps : ticks < MaxTicks /\ Tick(d)
    \/ InitializeOrientation
    \/ \E raw \in EventHeadings : OrientationEvent(raw)

SpecHeadingFlow == Init /\ [][NextHeadingFlow]_vars

----------------------------------------------------------------------------
(* Claims about the order of throttler and smoother *)

\* a sensor event that reached the listener and that the throttler rejected
RejectedHeadingEvent ==
    /\ call.op = "orientationEvent"
    /\ MapListener \in Registered(notified.delivered)
    /\ ~call.ret

\* C33 as stated: a raw heading sample that the throttler rejects does not
\* change the smoother's last smoothed heading.
C33_AsStated ==
    RejectedHeadingEvent => lastOrientation = call.pre.lastOrientation

----------------------------------------------------------------------------
(* Claims about the throttle state across navigation sessions *)

SessionCall == call.op \in {"handleStartNavigation", "handleEndNavigation"}

\* a position sample less than the base interval after the last accepted one
SampleInsideInterval ==
    /\ call.op = "onLocationSample"
    /\ call.pre.throttle.lastLocationUpdate > 0
    /\ now - call.pre.throttle.lastLocationUpdate < LOCATION_UPDATE_INTERVAL

\* C34: handleStartNavigation and handleEndNavigation leave the throttle state
\* as it was: both timestamps, the stationary flag with its start time and the
\* map-reference point; a position sample less than the base interval after
\* the last accepted one is rejected, whatever navigation sessions ended and
\* began in between.
C34_ThrottlePersists ==
    /\ SessionCall => ThrottleState = call.pre.throttle
    /\ SampleInsideInterval => ~call.ret

\* a sample accepted, then navigation (re)started, then a sample inside the
\* interval, rejected
C34_Witness ==
    /\ SampleInsideInterval
    /\ ~call.ret
    /\ navigationState.isNavigating
    /\ navigatingSince >= lastLocationUpdate

----------------------------------------------------------------------------
(* Claims about the independence of the streams in the throttler *)

\* the throttle state a stream would see had the other gates never been called:
\* its own fields as they are, the others as constructed
PositionFieldsOnly(st) ==
    [InitialThrottleState EXCEPT !.lastLocationUpdate = st.lastLocationUpdate,
                                 !.isStationary = st.isStationary,
                                 !.stationaryStartTime = st.stationaryStartTime]

HeadingFieldsOnly(st) ==
    [InitialThrottleState EXCEPT !.lastOrientationUpdate = st.lastOrientationUpdate]

MapFieldsOnly(st) ==
    [InitialThrottleState EXCEPT !.lastMapUpdateLocation = st.lastMapUpdateLocation]

\* the fields of the other gates
ExceptPositionFields(st) ==
    << st.lastOrientationUpdate, st.lastMapUpdateLocation >>

ExceptHeadingFields(st) ==
    << st.lastLocationUpdate, st.isStationary, st.stationaryStartTime,
       st.lastMapUpdateLocation >>

ExceptMapFields(st) ==
    << st.lastLocationUpdate, st.isStationary, st.stationaryStartTime,
       st.lastOrientationUpdate >>

\* C35: the position gate changes only the position timestamp and the
\* stationary state, the heading gate only the heading timestamp, the map gate
\* only the map-reference point, and the decision of each gate is the one it
\* takes when the fields of the other gates are as constructed: in every
\* interleaving a stream gets the decisions it would get alone.
C35_Independent ==
    /\ call.op = "shouldUpdateLocation" =>
           /\ ExceptPositionFields(ThrottleState)
                  = ExceptPositionFields(call.pre.throttle)
           /\ call.ret = shouldUpdateLocation(PositionFieldsOnly(call.pre.throttle),
                                              call.speed, now).ret
    /\ call.op = "shouldUpdateOrientation" =>
           /\ ExceptHeadingFields(ThrottleState) = ExceptHeadingFields(call.pre.throttle)
           /\ call.ret = shouldUpdateOrientation(HeadingFieldsOnly(call.pre.throttle),
                                                 now).ret
    /\ call.op = "shouldUpdateMap" =>
           /\ ExceptMapFields(ThrottleState) = ExceptMapFields(call.pre.throttle)
           /\ call.ret = shouldUpdateMap(MapFieldsOnly(call.pre.throttle),
                                         call.coord).ret

\* a position sample rejected inside its interval although a heading sample was
\* accepted, and the map reference set, since the last accepted position
C35_Witness ==
    /\ call.op = "shouldUpdateLocation"
    /\ ~call.ret
    /\ lastLocationUpdate > 0
    /\ lastOrientationUpdate > lastLocationUpdate
    /\ lastMapUpdateLocation # Absent

\* ---------------------------------------------------------------------------
\* Mock route invariants (RoutingService.getMockRoute).
\* ---------------------------------------------------------------------------

\* Origins and destinations of getMockRoute, whole micro-degrees on the
\* meridian, all of them representable latitudes: routes from a standstill up
\* to fifteen kilometres, so that three, four to seven and eight legs occur.
MockOrigins == {-1, 0, 720, 900}

MockDestinations ==
    { 4500 * k : k \in 0..30 } \cup {900, 1620, 26979, 65538}

\* calculateRoute's fallback: `return this.getMockRoute(origin, destination)`
GetMockRoute(origin, destination) ==
    /\ routing' = [ op |-> "getMockRoute", currentPosition |-> origin,
                    route |-> getMockRoute(origin, destination),
                    currentStepIndex |-> 0, progress |-> NoProgress,
                    remainingTime |-> NoTime ]
    /\ Observe("getMockRoute", destination, Absent, TRUE)
    /\ UNCHANGED << now, ticks, throttleVars, componentVars, orientationVars,
                    devicePowerSaving, adaptiveIntervals, utilityVars, streamVars,
                    currentRoute >>

NextMockRoute ==
    \E origin \in MockOrigins, destination \in MockDestinations :
        GetMockRoute(origin, destination)

SpecMockRoute == Init /\ [][NextMockRoute]_vars

MockRouteCall == routing.op = "getMockRoute" /\ call.op = "getMockRoute"

MockLegs == Len(routing.route.steps)

NavigationReset ==
    /\ ~navigationState.isNavigating
    /\ navigationState.currentRoute = << >>
    /\ navigationState.currentStepIndex = 0
    /\ navigationState.remainingDistance = 0
    /\ navigationState.nextTurnInstruction = << >>

\* C37: handleEndNavigation leaves navigation inactive with leg index 0,
\* remaining distance 0 and no next instruction, and from then on no step
\* other than a successful handleStartNavigation changes that: a position
\* sample delivered afterwards, accepted or not, does not bring navigation back.
C37_StaysReset ==
    [][ /\ call'.op = "handleEndNavigation" => NavigationReset'
        /\ (NavigationReset /\ call'.op # "handleStartNavigation") => NavigationReset'
      ]_vars

\* an accepted position sample after a navigation session has been ended
C37_Witness ==
    /\ call.op = "onLocationSample"
    /\ call.ret
    /\ navigatingSince # 0
    /\ NavigationReset

\* ---------------------------------------------------------------------------
\* The idle timeout of the camera: how many firings are pending.
\* ---------------------------------------------------------------------------

\* cleanup() of CarParkingMap, run when the component unmounts: both listeners
\* unsubscribed, clearTimeout of the ref's timeout, and the two services'
\* cleanup()
ComponentCleanup ==
    /\ locationListening' = FALSE
    /\ userIdleTimeoutRef' = NoTimeout
    /\ pendingTimeouts' = clearTimeout(userIdleTimeoutRef, pendingTimeouts)
    /\ watchId' = stopWatchingLocation(watchId, geolocation).watchId
    /\ geolocation' = stopWatchingLocation(watchId, geolocation).geolocation
    /\ locationCallbacks' = << >>
    /\ orientationCallbacks' = << >>
    /\ lastOrientation' = Absent
    /\ Observe("componentCleanup", Absent, Absent, TRUE)
    /\ UNCHANGED << now, ticks, throttleVars, userLocation, orientation, navigationState,
                    cameraState, rendered, throttleLastCallTime, depsChanged, poseRequest,
                    lastInteractionEvent, navigatingSince, smoothingFactor, headingUpdates,
                    devicePowerSaving, adaptiveIntervals, routing, simplified,
                    routeRequest, normalized, handles, notified,
                    lastKnownLocation, currentRoute >>

\* the component is mounted: no handler of an unmounted component is called
Mounted == call.op # "componentCleanup"

NextIdleTimer ==
    \/ Mounted /\ \E d \in ComponentSteps : ticks < MaxComponentTicks /\ Tick(d)
    \/ Mounted /\ Render
    \/ Mounted /\ \E c \in InitialPositions : InitializeLocation(c)
    \/ Mounted /\ \E type \in InteractionTypes : HandleUserMapInteraction(type)
    \/ Mounted /\ IdleTimeoutFires
    \/ Mounted /\ \E slot \in ParkingSlots : StartNavigation(slot)
    \/ Mounted /\ EndNavigation
    \/ Mounted /\ ComponentCleanup

SpecIdleTimer == Init /\ [][NextIdleTimer]_vars

\* C38: at most one firing of the idle timeout is pending, the one the ref
\* names, and only while navigation is active; an interaction handled while
\* navigation is inactive leaves none pending, and so do handleEndNavigation
\* and the component's cleanup.
C38_OnePendingWhileNavigating ==
    /\ pendingTimeouts \in {0, 1}
    /\ (pendingTimeouts = 1) = userIdleTimeoutRef.pending
    /\ pendingTimeouts = 1 => navigationState.isNavigating
    /\ (call.op = "handleUserMapInteraction" /\ ~navigationState.isNavigating)
           => pendingTimeouts = 0
    /\ call.op \in {"handleEndNavigation", "componentCleanup"} => pendingTimeouts = 0

\* an interaction during navigation replaced a pending firing by a new one
C38_Witness ==
    /\ call.op = "handleUserMapInteraction"
    /\ call.ret
    /\ call.pre.userIdleTimeoutRef.pending
    /\ pendingTimeouts = 1
    /\ userIdleTimeoutRef.due # call.pre.userIdleTimeoutRef.due

\* ---------------------------------------------------------------------------
\* The location watch of LocationService.
\* ---------------------------------------------------------------------------

\* watches the platform hands out before the model stops starting new ones
MaxWatches == 4

StartWatchingLocation ==
    /\ geolocation.nextWatchId < MaxWatches
    /\ watchId' = startWatchingLocation(watchId, geolocation).watchId
    /\ geolocation' = startWatchingLocation(watchId, geolocation).geolocation
    /\ Observe("startWatchingLocation", Absent, Absent, TRUE)
    /\ UNCHANGED << now, ticks, throttleVars, componentVars, orientationVars,
                    devicePowerSaving, adaptiveIntervals, routing, simplified,
                    routeRequest, normalized, handles, streamVars, currentRoute >>

StopWatchingLocation ==
    /\ watchId' = stopWatchingLocation(watchId, geolocation).watchId
    /\ geolocation' = stopWatchingLocation(watchId, geolocation).geolocation
    /\ Observe("stopWatchingLocation", Absent, Absent, TRUE)
    /\ UNCHANGED << now, ticks, throttleVars, componentVars, orientationVars,
                    devicePowerSaving, adaptiveIntervals, routing, simplified,
                    routeRequest, normalized, handles, streamVars, currentRoute >>

\* the platform calls the success callback of one of its active watches
PositionDelivered(id, coordinates) ==
    /\ id \in geolocation.subscriptions
    /\ WatchPosition(coordinates, {})

NextWatch ==
    \/ StartWatchingLocation
    \/ StopWatchingLocation
    \/ LocationCleanup
    \/ \E callback \in Listeners : AddLocationListener(callback)
    \/ \E id \in 0..MaxWatches, coordinates \in StreamPositions :
           PositionDelivered(id, coordinates)

SpecWatch == Init /\ [][NextWatch]_vars

\* C39: the platform never holds more than one watch of the service, and the
\* one it holds is the one watchId names; none is active after
\* stopWatchingLocation or cleanup; cleanup leaves the listener registry
\* empty, and a position is delivered only while a watch is active and only to
\* the listeners registered at that time, so none registered before a cleanup
\* is notified after it.
C39_OneWatch ==
    /\ Cardinality(geolocation.subscriptions) <= 1
    /\ geolocation.subscriptions = (IF watchId = Absent THEN {} ELSE {watchId})
    /\ call.op \in {"stopWatchingLocation", "locationCleanup"} =>
           geolocation.subscriptions = {}
    /\ call.op = "locationCleanup" => locationCallbacks = << >>
    /\ call.op = "watchPosition" =>
           /\ geolocation.subscriptions # {}
           /\ Registered(notified.delivered) = Registered(locationCallbacks)

\* the watch was started a second time while the first was active
C39_Witness ==
    /\ call.op = "startWatchingLocation"
    /\ watchId = 1
    /\ geolocation.subscriptions = {1}
    /\ locationCallbacks # << >>

\* ---------------------------------------------------------------------------
\* The recursion of douglasPeucker.
\* ---------------------------------------------------------------------------

\* douglasPeucker(points, 0.0001) called on its own
DouglasPeucker(points) ==
    /\ simplified' = [ coordinates |-> points,
                       result |-> douglasPeucker(points, SIMPLIFY_TOLERANCE) ]
    /\ Observe("douglasPeucker", Absent, Absent, TRUE)
    /\ UNCHANGED << now, ticks, throttleVars, componentVars, orientationVars,
                    devicePowerSaving, adaptiveIntervals, routing, routeRequest, normalized,
                    handles, watchId, geolocation,
                    streamVars, currentRoute >>

\* polylines of four points of the grid, from its corner to a point of its
\* lower edge or back to the corner
FourPointRoutes ==
    { << Point(0, 0), q, r, t >> :
        q, r \in GridPoints, t \in {Point(0, 0), Point(1, 0), Point(2, 0)} }

NextDouglasPeucker ==
    \/ \E points \in ShortRoutes \cup FourPointRoutes : DouglasPeucker(points)
    \/ \E coordinates \in ShortRoutes \cup LongRoutes : SimplifyRoute(coordinates)

SpecDouglasPeucker == Init /\ [][NextDouglasPeucker]_vars

\* the points with their places in the polyline
Indexed(points) ==
    [ i \in 1..Len(points) |->
        [ latitude |-> points[i].latitude, longitude |-> points[i].longitude,
          index |-> i ] ]

IndexOccurrences(points, index) ==
    Cardinality({ i \in 1..Len(points) : points[i].index = index })

\* every call of the recursion on more than two points either returns its two
\* end points or splits at a point that is neither the first nor the last, so
\* that both parts are shorter than the polyline, and returns that point once
RECURSIVE ProperSplits(_, _)
ProperSplits(points, tolerance) ==
    IF Len(points) <= 2 THEN TRUE
    ELSE LET maxIndex == SplitIndex(points, tolerance)
         IN  \/ maxIndex = 0
             \/ /\ 1 < maxIndex /\ maxIndex < Len(points)
                /\ Len(SubSeq(points, 1, maxIndex)) < Len(points)
                /\ Len(SubSeq(points, maxIndex, Len(points))) < Len(points)
                /\ IndexOccurrences(douglasPeucker(points, tolerance),
                                    points[maxIndex].index) = 1
                /\ ProperSplits(SubSeq(points, 1, maxIndex), tolerance)
                /\ ProperSplits(SubSeq(points, maxIndex, Len(points)), tolerance)

\* the places of the points douglasPeucker keeps of the polyline of the call
\* observed
KeptPlaces ==
    LET kept == douglasPeucker(Indexed(simplified.coordinates), SIMPLIFY_TOLERANCE)
    IN  [ i \in 1..Len(kept) |-> kept[i].index ]

RecursionRan ==
    \/ call.op = "douglasPeucker"
    \/ call.op = "simplifyRoute" /\ Len(simplified.coordinates) > MAX_ROUTE_POINTS

\* C40: the recursion of douglasPeucker ends: a call that splits does so at a
\* point that is neither the first nor the last, so both recursive calls get
\* fewer points; the result is the points of the input at strictly increasing
\* places, a split point among them once; simplifyRoute returns a polyline of
\* at most 1000 points as it is.
C40_Recursion ==
    /\ RecursionRan =>
           /\ ProperSplits(Indexed(simplified.coordinates), SIMPLIFY_TOLERANCE)
           /\ \A i \in 1..(Len(KeptPlaces) - 1) : KeptPlaces[i] < KeptPlaces[i + 1]
           /\ simplified.result =
                  [ i \in 1..Len(KeptPlaces) |-> simplified.coordinates[KeptPlaces[i]] ]
    /\ (call.op = "simplifyRoute" /\ Len(simplified.coordinates) <= MAX_ROUTE_POINTS) =>
           simplified.result = simplified.coordinates

\* a polyline of more than 1000 points split more than once
C40_Witness ==
    /\ call.op = "simplifyRoute"
    /\ Len(simplified.coordinates) > MAX_ROUTE_POINTS
    /\ Len(simplified.result) > 3
    /\ Len(simplified.result) < Len(simplified.coordinates)

====
